---- MODULE Spec2Model ----
(***************************************************************************)
(* Model of the harvester: the pure reducer (harvester_core), the engine   *)
(* worker with its staged pipeline (harvester_engine) and the glue that    *)
(* carries effects to the engine and events back (harvester_app).          *)
(*                                                                         *)
(* Strings the code inspects character by character (URLs, pasted text)    *)
(* are sequences of one-character strings; opaque strings (previews) are   *)
(* TLA+ strings.  Option<T> is a sequence of length at most one.           *)
(***************************************************************************)
EXTENDS Integers, Sequences, FiniteSets, TLC

VARIABLES
    state,          \* AppState owned by the reducer
    effects,        \* Vec<Effect> returned by the last update call
    last_msg,       \* kind of the Msg the last update call was given
    issued,         \* job ids carried by the EnqueueUrl effects returned so far
    cmd_rx,         \* reducer -> engine command channel (FIFO)
    queue,          \* worker_loop: VecDeque<(JobId, String)>
    accept_new,     \* worker_loop: accept_new
    cancel_token,   \* worker_loop: CancellationToken (TRUE once cancelled)
    wpc,            \* worker_loop: position of the worker thread
    job,            \* run_job: the job being executed and its position
    events,         \* every EngineEvent sent on event_tx, in order
    delivered,      \* number of events already handed to the reducer
    received,       \* job ids of the Enqueue commands the worker has received
    taken,          \* every command the worker has received, in order
    exports,        \* number of executions of build_concatenated_export
    sent,           \* number of commands sent on cmd_tx so far
    expired,        \* the stage timeouts that have expired: [job_id, stage]
    interrupted,    \* the running job and its position at each stop() call
    target_file,    \* AtomicFileWriter: content of {dir}/{filename}, if any
    tmp_file,       \* AtomicFileWriter: content of the NamedTempFile, if any
    writer,         \* AtomicFileWriter::write: position, argument, result
    published,      \* contents of the writes that returned Ok so far
    norm,           \* a URL and the results of normalize_url_for_dedupe on it
    pv,             \* a markdown document and its prepare_preview_content
    ex              \* an output directory and its build_concatenated_export

persistVars == << target_file, tmp_file, writer, published >>
pureVars == << norm, pv, ex >>
auxVars == << persistVars, pureVars >>

vars == << state, effects, last_msg, issued, cmd_rx, queue, accept_new,
           cancel_token, wpc, job, events, delivered, received, taken,
           exports, sent, expired, interrupted, auxVars >>

reducerVars == << state, effects, last_msg, issued >>
engineVars == << cmd_rx, queue, accept_new, cancel_token, wpc, job, events,
                 received, taken, exports, sent, expired, interrupted >>

(***************************************************************************)
(* Bounds of the model.                                                    *)
(***************************************************************************)
MaxJobs == 2
MaxCmds == 3
MaxChunks == 1
MaxUrlLen == 3
\* preview.rs 2 has 40_960; the model keeps it above the length of
\* TRUNCATED_MARKER and small enough to enumerate the documents around it
MAX_PREVIEW_CONTENT == 14

(***************************************************************************)
(* Option<T>                                                               *)
(***************************************************************************)
None == << >>
Some(v) == << v >>
is_some(o) == o # << >>
unwrap_or(o, d) == IF o = << >> THEN d ELSE o[1]

(***************************************************************************)
(* Strings as sequences of characters.                                     *)
(***************************************************************************)
UpperChars == << "A", "B", "C", "E", "X", "P", "O", "R", "T" >>
LowerChars == << "a", "b", "c", "e", "x", "p", "o", "r", "t" >>

is_whitespace(c) == c \in { " ", "\t", "\n", "\r" }

char_to_lowercase(c) ==
    IF \E i \in 1..Len(UpperChars) : UpperChars[i] = c
    THEN LowerChars[CHOOSE i \in 1..Len(UpperChars) : UpperChars[i] = c]
    ELSE c

to_lowercase(s) == [ i \in 1..Len(s) |-> char_to_lowercase(s[i]) ]

RECURSIVE trim_start(_)
trim_start(s) ==
    IF s # << >> /\ is_whitespace(Head(s)) THEN trim_start(Tail(s)) ELSE s

RECURSIVE trim_end(_)
trim_end(s) ==
    IF s # << >> /\ is_whitespace(s[Len(s)])
    THEN trim_end(SubSeq(s, 1, Len(s) - 1))
    ELSE s

trim(s) == trim_end(trim_start(s))

RECURSIVE trim_end_matches(_, _)
trim_end_matches(s, c) ==
    IF s # << >> /\ s[Len(s)] = c
    THEN trim_end_matches(SubSeq(s, 1, Len(s) - 1), c)
    ELSE s

\* str::lines(): split at "\n"; a final line ending adds no empty last line.
RECURSIVE lines(_)
lines(s) ==
    IF s = << >> THEN << >>
    ELSE IF \E i \in 1..Len(s) : s[i] = "\n"
         THEN LET i == CHOOSE k \in 1..Len(s) :
                           s[k] = "\n" /\ \A m \in 1..(k - 1) : s[m] # "\n"
              IN  << SubSeq(s, 1, i - 1) >> \o lines(SubSeq(s, i + 1, Len(s)))
         ELSE << s >>

\* update.rs parse_urls: lines, trimmed, empty ones dropped, order kept.
NonEmptyLine(l) == l # << >>
parse_urls(raw) ==
    LET ls == lines(raw)
        trimmed == [ i \in 1..Len(ls) |-> trim(ls[i]) ]
    IN  SelectSeq(trimmed, NonEmptyLine)

\* state.rs normalize_url_for_dedupe: trim, lowercase, strip trailing '/'.
normalize_url_for_dedupe(url) ==
    trim_end_matches(to_lowercase(trim(url)), "/")

(***************************************************************************)
(* harvester_core: AppState and its methods (state.rs).                    *)
(***************************************************************************)
Stages == << "Queued", "Downloading", "Sanitizing", "Converting",
             "Tokenizing", "Writing", "Done" >>
StageSet == { Stages[i] : i \in 1..Len(Stages) }
StageIndex(s) == CHOOSE i \in 1..Len(Stages) : Stages[i] = s

SessionState == { "Idle", "Running", "Finishing", "Finished" }

\* PreviewState (state.rs 395-427)
PreviewEmpty == [ kind |-> "Empty" ]
PreviewAvailable(id, c) == [ kind |-> "Available", job_id |-> id, content |-> c ]
PreviewInProgress(id, c) == [ kind |-> "InProgress", job_id |-> id, content |-> c ]
PreviewUnavailable(id) == [ kind |-> "Unavailable", job_id |-> id ]

preview_job_id(p) == IF p.kind = "Empty" THEN None ELSE Some(p.job_id)
preview_content(p) ==
    IF p.kind \in { "Available", "InProgress" } THEN Some(p.content) ELSE None

\* AppState::default
AppStateDefault ==
    [ session          |-> "Idle",
      jobs             |-> << >>,
      metrics          |-> [ total_urls |-> 0, total_tokens |-> 0 ],
      ui               |-> [ input |-> << >>, urls |-> << >>,
                             preview |-> PreviewEmpty ],
      seen_urls        |-> { },
      last_paste_stats |-> None,
      dirty            |-> FALSE,
      next_job_id      |-> 1 ]

JobIds(st) == DOMAIN st.jobs

\* BTreeMap::insert
MapInsert(m, k, v) == [ x \in (DOMAIN m) \cup { k } |-> IF x = k THEN v ELSE m[x] ]

\* u64 saturating arithmetic; the totals of the model stay far below 2^64.
\* a subtraction that keeps the old amount
saturating_sub_nothing(a, b) == a

saturating_sub(a, b) == IF a < b THEN 0 ELSE a - b
saturating_add(a, b) == a + b

\* UiState::set_preview_state: [ui, changed]
set_preview_state(ui, next) ==
    IF ui.preview = next
    THEN [ ui |-> ui, changed |-> FALSE ]
    ELSE [ ui |-> [ ui EXCEPT !.preview = next ], changed |-> TRUE ]

\* UiState::select_job: [ui, changed]
ui_select_job(ui, job_id, content) ==
    set_preview_state(ui, IF is_some(content)
                          THEN PreviewAvailable(job_id, content[1])
                          ELSE PreviewUnavailable(job_id))

\* a clear_preview that leaves the shown preview in place
clear_preview_kept(ui) == [ ui |-> ui, changed |-> FALSE ]

\* UiState::clear_preview
clear_preview(ui) == set_preview_state(ui, PreviewEmpty)

\* AppState::consume_dirty: the state after the call (it returns st.dirty)
consume_dirty(st) == [ st EXCEPT !.dirty = FALSE ]

\* a snapshot that takes every finished job, whatever its outcome
RECURSIVE SnapshotFromAnyOutcome(_, _)
SnapshotFromAnyOutcome(st, ids) ==
    IF ids = { } THEN << >>
    ELSE LET id == CHOOSE x \in ids : \A y \in ids : x <= y
             j == st.jobs[id]
             rest == SnapshotFromAnyOutcome(st, ids \ { id })
         IN  IF is_some(j.outcome)
             THEN << [ url |-> j.url, tokens |-> j.tokens, bytes |-> j.bytes ] >>
                      \o rest
             ELSE rest

\* AppState::completed_jobs_snapshot
RECURSIVE SnapshotFrom(_, _)
SnapshotFrom(st, ids) ==
    IF ids = { } THEN << >>
    ELSE LET id == CHOOSE x \in ids : \A y \in ids : x <= y
             j == st.jobs[id]
             rest == SnapshotFrom(st, ids \ { id })
         IN  IF j.outcome = Some("Success")
             THEN << [ url |-> j.url, tokens |-> j.tokens, bytes |-> j.bytes ] >>
                      \o rest
             ELSE rest
completed_jobs_snapshot(st) == SnapshotFrom(st, JobIds(st))

\* a restore that records the URL as stored, not normalized
remember_url_as_stored(seen, url) == seen \cup { url }

\* state.rs 126-127: the restored URL is recorded in its normalized form
remember_url(seen, url) == seen \cup { normalize_url_for_dedupe(url) }

\* AppState::restore_completed_jobs, the loop over the entries (111-131)
RECURSIVE restore_entries(_, _)
restore_entries(st, entries) ==
    IF entries = << >> THEN st
    ELSE LET entry == Head(entries)
             job_id == st.next_job_id
             s1 == [ st EXCEPT
                       !.next_job_id = job_id + 1,
                       !.jobs = MapInsert(st.jobs, job_id,
                                   [ url |-> entry.url, stage |-> "Done",
                                     outcome |-> Some("Success"),
                                     tokens |-> entry.tokens,
                                     bytes |-> entry.bytes,
                                     content_preview |-> None ]),
                       !.seen_urls = remember_url(st.seen_urls, entry.url),
                       !.metrics.total_tokens =
                           IF is_some(entry.tokens)
                           THEN saturating_add(st.metrics.total_tokens,
                                               entry.tokens[1])
                           ELSE st.metrics.total_tokens ]
         IN  restore_entries(s1, Tail(entries))

\* a restore that clears the state also when the snapshot list is empty
restore_completed_jobs_unguarded(st, entries) ==
    LET cleared == [ st EXCEPT
                       !.jobs = << >>,
                       !.seen_urls = { },
                       !.metrics = [ total_urls |-> 0, total_tokens |-> 0 ],
                       !.ui = [ clear_preview(@).ui EXCEPT !.urls = << >> ],
                       !.last_paste_stats = None,
                       !.next_job_id = 1 ]
        filled == restore_entries(cleared, entries)
    IN  [ filled EXCEPT
            !.metrics.total_urls = Cardinality(DOMAIN filled.jobs),
            !.session = "Idle",
            !.dirty = TRUE ]

\* a restore that appends to the jobs already there
restore_completed_jobs_appending(st, entries) ==
    [ restore_entries(st, entries) EXCEPT !.session = "Idle", !.dirty = TRUE ]

\* AppState::restore_completed_jobs
restore_completed_jobs(st, entries) ==
    IF entries = << >> THEN st
    ELSE LET cleared == [ st EXCEPT
                            !.jobs = << >>,
                            !.seen_urls = { },
                            !.metrics = [ total_urls |-> 0, total_tokens |-> 0 ],
                            !.ui = [ clear_preview(@).ui EXCEPT !.urls = << >> ],
                            !.last_paste_stats = None,
                            !.next_job_id = 1 ]
             filled == restore_entries(cleared, entries)
         IN  [ filled EXCEPT
                 !.metrics.total_urls = Cardinality(DOMAIN filled.jobs),
                 !.session = "Idle",
                 !.dirty = TRUE ]

\* AppState::select_job
select_job(st, job_id) ==
    IF job_id \in JobIds(st)
    THEN LET r == ui_select_job(st.ui, job_id, st.jobs[job_id].content_preview)
         IN  [ st EXCEPT !.ui = r.ui, !.dirty = IF r.changed THEN TRUE ELSE @ ]
    ELSE st

\* AppState::set_urls
set_urls(st, urls) ==
    [ st EXCEPT !.ui.urls = urls, !.metrics.total_urls = Len(urls),
                !.dirty = TRUE ]

\* AppState::enqueue_jobs_from_ui, the loop (158-174): [state, enqueued]
RECURSIVE enqueue_loop(_, _, _)
enqueue_loop(st, urls, enqueued) ==
    IF urls = << >> THEN [ state |-> st, enqueued |-> enqueued ]
    ELSE LET url == Head(urls)
             job_id == st.next_job_id
             s1 == [ st EXCEPT
                       !.next_job_id = job_id + 1,
                       !.jobs = MapInsert(st.jobs, job_id,
                                   [ url |-> url, stage |-> "Queued",
                                     outcome |-> None, tokens |-> None,
                                     bytes |-> None,
                                     content_preview |-> None ]) ]
         IN  enqueue_loop(s1, Tail(urls),
                          Append(enqueued, [ job_id |-> job_id, url |-> url ]))

\* AppState::enqueue_jobs_from_ui: [state, enqueued]
enqueue_jobs_from_ui(st) ==
    LET r == enqueue_loop(st, st.ui.urls, << >>)
    IN  [ state |-> [ r.state EXCEPT !.ui.urls = << >>, !.dirty = TRUE ],
          enqueued |-> r.enqueued ]

\* an apply_progress that shows the preview whichever job is selected
apply_progress_always_shown(st, job_id, stage, tokens, bytes, content_preview) ==
    IF job_id \in JobIds(st)
    THEN LET j == st.jobs[job_id]
             ui1 == IF is_some(content_preview)
                    THEN set_preview_state(st.ui,
                             PreviewInProgress(job_id, content_preview[1])).ui
                    ELSE st.ui
             j1 == [ j EXCEPT
                       !.stage = stage,
                       !.tokens = IF is_some(tokens) THEN tokens ELSE @,
                       !.bytes = IF is_some(bytes) THEN bytes ELSE @,
                       !.content_preview =
                           IF is_some(content_preview) THEN content_preview
                           ELSE @ ]
         IN  [ st EXCEPT !.jobs[job_id] = j1, !.ui = ui1, !.dirty = TRUE ]
    ELSE st

\* AppState::apply_progress
apply_progress(st, job_id, stage, tokens, bytes, content_preview) ==
    IF job_id \in JobIds(st)
    THEN LET j == st.jobs[job_id]
             newTokens == is_some(tokens) /\ j.tokens # tokens
             total == IF newTokens
                      THEN saturating_add(
                               saturating_sub(st.metrics.total_tokens,
                                              unwrap_or(j.tokens, 0)),
                               tokens[1])
                      ELSE st.metrics.total_tokens
             selected == preview_job_id(st.ui.preview) = Some(job_id)
             ui1 == IF is_some(content_preview) /\ selected
                    THEN set_preview_state(st.ui,
                             PreviewInProgress(job_id, content_preview[1])).ui
                    ELSE st.ui
             j1 == [ j EXCEPT
                       !.stage = stage,
                       !.tokens = IF newTokens THEN tokens ELSE @,
                       !.bytes = IF is_some(bytes) THEN bytes ELSE @,
                       !.content_preview =
                           IF is_some(content_preview) THEN content_preview
                           ELSE @ ]
         IN  [ st EXCEPT !.jobs[job_id] = j1,
                         !.metrics.total_tokens = total,
                         !.ui = ui1,
                         !.dirty = TRUE ]
    ELSE st

\* an apply_done that keeps the stored preview of a job that failed
apply_done_to_job_keeping_preview(st, job_id, result, content_preview) ==
    LET j == st.jobs[job_id]
        j1 == [ j EXCEPT
                  !.stage = "Done",
                  !.outcome = Some(result),
                  !.content_preview =
                      IF is_some(content_preview) THEN content_preview ELSE @ ]
        ui1 == IF preview_job_id(st.ui.preview) = Some(job_id)
               THEN ui_select_job(st.ui, job_id, j1.content_preview).ui
               ELSE st.ui
    IN  [ st EXCEPT !.jobs[job_id] = j1, !.ui = ui1, !.dirty = TRUE ]

\* AppState::apply_done for a job that exists (224-244)
apply_done_to_job(st, job_id, result, content_preview) ==
    LET j == st.jobs[job_id]
        j1 == [ j EXCEPT
                  !.stage = "Done",
                  !.outcome = Some(result),
                  !.content_preview =
                      IF result = "Success"
                      THEN IF is_some(content_preview)
                           THEN content_preview ELSE @
                      ELSE None ]
        ui1 == IF preview_job_id(st.ui.preview) = Some(job_id)
               THEN ui_select_job(st.ui, job_id, j1.content_preview).ui
               ELSE st.ui
    IN  [ st EXCEPT !.jobs[job_id] = j1, !.ui = ui1, !.dirty = TRUE ]

\* an apply_done that asks for a render whether or not the job exists
apply_done_always_dirty(st, job_id, result, content_preview) ==
    IF job_id \in JobIds(st)
    THEN apply_done_to_job(st, job_id, result, content_preview)
    ELSE [ st EXCEPT !.dirty = TRUE ]

\* AppState::apply_done
apply_done(st, job_id, result, content_preview) ==
    IF job_id \in JobIds(st)
    THEN apply_done_to_job(st, job_id, result, content_preview)
    ELSE st

\* AppState::start_session / finish_session / set_last_paste_stats
start_session(st) == [ st EXCEPT !.session = "Running", !.dirty = TRUE ]
\* a finish_session that ends the session at once
finish_session_at_once(st) == [ st EXCEPT !.session = "Finished", !.dirty = TRUE ]
finish_session(st) == [ st EXCEPT !.session = "Finishing", !.dirty = TRUE ]
set_last_paste_stats(st, enqueued, skipped) ==
    [ st EXCEPT !.last_paste_stats =
                    Some([ enqueued |-> enqueued, skipped |-> skipped ]),
                !.dirty = TRUE ]

\* a lookup that forgets to record the URL
is_url_seen_lookup_only(st, normalized_url) ==
    [ state |-> st, seen |-> normalized_url \in st.seen_urls ]

\* AppState::is_url_seen: inserts the URL; [state, seen]
is_url_seen(st, normalized_url) ==
    [ state |-> [ st EXCEPT !.seen_urls = @ \cup { normalized_url } ],
      seen  |-> normalized_url \in st.seen_urls ]

(***************************************************************************)
(* harvester_core: update (update.rs).                                     *)
(***************************************************************************)
EffectStartSession == [ type |-> "StartSession" ]
EffectEnqueueUrl(id, url) == [ type |-> "EnqueueUrl", job_id |-> id, url |-> url ]
EffectStopFinish(policy) == [ type |-> "StopFinish", policy |-> policy ]
EffectArchiveRequested == [ type |-> "ArchiveRequested" ]

IsEnqueueUrl(e) == e.type = "EnqueueUrl"
EnqueueUrlIds(effs) ==
    { effs[i].job_id : i \in { j \in DOMAIN effs : IsEnqueueUrl(effs[j]) } }

Ret(st, effs) == [ state |-> st, effects |-> effs ]

\* update.rs 21-30: the dedupe loop; [state, unique_urls, skipped_count]
RECURSIVE dedupe_loop(_, _, _, _)
dedupe_loop(st, urls, unique_urls, skipped_count) ==
    IF urls = << >>
    THEN [ state |-> st, unique_urls |-> unique_urls,
           skipped_count |-> skipped_count ]
    ELSE LET r == is_url_seen(st, normalize_url_for_dedupe(Head(urls)))
         IN  IF r.seen
             THEN dedupe_loop(r.state, Tail(urls), unique_urls, skipped_count + 1)
             ELSE dedupe_loop(r.state, Tail(urls),
                              Append(unique_urls, Head(urls)), skipped_count)

\* a session start on every accepted paste
should_start_always(st) == TRUE

\* update.rs 38: the session starts when the paste arrives in Idle
should_start(st) == st.session = "Idle"

\* update.rs 39-54: enqueue the surviving URLs and build the effects
enqueue_unique(st, unique_urls, skipped_count) ==
    LET s1 == IF should_start(st) THEN start_session(st) ELSE st
        r  == enqueue_jobs_from_ui(set_urls(s1, unique_urls))
        s2 == set_last_paste_stats(r.state, Len(r.enqueued), skipped_count)
        enq == [ i \in 1..Len(r.enqueued) |->
                   EffectEnqueueUrl(r.enqueued[i].job_id, r.enqueued[i].url) ]
    IN  Ret(s2, (IF should_start(st) THEN << EffectStartSession >> ELSE << >>)
                \o enq)

\* a gate that lets pastes through while the session is Finishing
session_blocks_paste_finished_only(st) == st.session = "Finished"

\* update.rs 13-18: the session gate of the paste handler
session_blocks_paste(st) == st.session \in { "Finishing", "Finished" }

\* a paste handler without the all-duplicates branch of update.rs 32-36
urls_pasted_without_duplicate_branch(st, raw) ==
    LET urls == parse_urls(raw)
    IN  IF urls = << >> THEN Ret(st, << >>)
        ELSE IF session_blocks_paste(st) THEN Ret(st, << >>)
        ELSE LET d == dedupe_loop(st, urls, << >>, 0)
             IN  enqueue_unique(d.state, d.unique_urls, d.skipped_count)

\* update.rs 6-55: the paste handler, applied to the raw text
urls_pasted(st, raw) ==
    LET urls == parse_urls(raw)
    IN  IF urls = << >> THEN Ret(st, << >>)
        ELSE IF session_blocks_paste(st) THEN Ret(st, << >>)
        ELSE LET d == dedupe_loop(st, urls, << >>, 0)
             IN  IF d.unique_urls = << >>
                 THEN Ret(set_last_paste_stats(d.state, 0, d.skipped_count), << >>)
                 ELSE enqueue_unique(d.state, d.unique_urls, d.skipped_count)

\* a stop button that works in every session state
stop_finish_clicked_anywhere(st) ==
    Ret(finish_session(st), << EffectStopFinish("Finish") >>)

\* update.rs 56-65
stop_finish_clicked(st) ==
    IF st.session = "Running"
    THEN Ret(finish_session(st), << EffectStopFinish("Finish") >>)
    ELSE Ret(st, << >>)

\* Msg::InputChanged: stores the text in the pending input buffer.
input_changed(st, text) == Ret([ st EXCEPT !.ui.input = text ], << >>)

\* Msg::UrlsSubmitted: the paste handler applied to the pending input.
urls_submitted(st) == urls_pasted(st, st.ui.input)

\* an update whose archive click also asks for a render
update_archive_marks_dirty(st, msg) ==
    CASE msg.type = "InputChanged" -> input_changed(st, msg.text)
      [] msg.type = "UrlsSubmitted" -> urls_submitted(st)
      [] msg.type = "RestoreCompletedJobs" ->
             Ret(restore_completed_jobs(st, msg.entries), << >>)
      [] msg.type = "StopFinishClicked" -> stop_finish_clicked(st)
      [] msg.type = "ArchiveClicked" ->
             Ret([ st EXCEPT !.dirty = TRUE ], << EffectArchiveRequested >>)
      [] msg.type = "JobProgress" ->
             Ret(apply_progress(st, msg.job_id, msg.stage, msg.tokens,
                                msg.bytes, msg.content_preview), << >>)
      [] msg.type = "JobDone" ->
             Ret(apply_done(st, msg.job_id, msg.result, msg.content_preview),
                 << >>)
      [] msg.type = "JobSelected" -> Ret(select_job(st, msg.job_id), << >>)
      [] msg.type \in { "Tick", "NoOp" } -> Ret(st, << >>)

\* update
update(st, msg) ==
    CASE msg.type = "InputChanged" -> input_changed(st, msg.text)
      [] msg.type = "UrlsSubmitted" -> urls_submitted(st)
      [] msg.type = "RestoreCompletedJobs" ->
             Ret(restore_completed_jobs(st, msg.entries), << >>)
      [] msg.type = "StopFinishClicked" -> stop_finish_clicked(st)
      [] msg.type = "ArchiveClicked" -> Ret(st, << EffectArchiveRequested >>)
      [] msg.type = "JobProgress" ->
             Ret(apply_progress(st, msg.job_id, msg.stage, msg.tokens,
                                msg.bytes, msg.content_preview), << >>)
      [] msg.type = "JobDone" ->
             Ret(apply_done(st, msg.job_id, msg.result, msg.content_preview),
                 << >>)
      [] msg.type = "JobSelected" -> Ret(select_job(st, msg.job_id), << >>)
      [] msg.type \in { "Tick", "NoOp" } -> Ret(st, << >>)

(***************************************************************************)
(* Inputs of the reducer.                                                  *)
(***************************************************************************)
ExportMarkerUrl == << "_", "_", "E", "X", "P", "O", "R", "T", "_", "_" >>

PasteInputs ==
    { << "a", "\n", "b", "\n" >>,               \* two URLs
      << "a", "/", "\n", " ", "A", "\n" >>,     \* two spellings of one URL
      << " ", "\n", "\n" >>,                    \* no URL at all
      << "b", "/", "/" >> }                     \* a variant of b

RestoreInputs ==
    { << >>,
      << [ url |-> << "b", "/" >>, tokens |-> Some(1), bytes |-> None ] >>,
      << [ url |-> << "a" >>, tokens |-> None, bytes |-> Some(1) ],
         [ url |-> << "c" >>, tokens |-> Some(2), bytes |-> None ] >> }

TokenValues == { None, Some(1), Some(2) }
MsgJobIds == 1..MaxJobs

(***************************************************************************)
(* Initial state.                                                          *)
(***************************************************************************)
NoJob == [ pc |-> "none" ]

ReducerInit ==
    /\ state = AppStateDefault
    /\ effects = << >>
    /\ last_msg = "None"
    /\ issued = { }

EngineInit ==
    /\ cmd_rx = << >>
    /\ queue = << >>
    /\ accept_new = TRUE
    /\ cancel_token = FALSE
    /\ wpc = "drain"
    /\ job = NoJob
    /\ events = << >>
    /\ received = { }
    /\ taken = << >>
    /\ exports = 0
    /\ sent = 0
    /\ expired = { }
    /\ interrupted = { }

\* no write in progress, nothing on disk yet
WriterIdle ==
    [ pc |-> "idle", content |-> << >>, before |-> None, result |-> "none" ]

PersistInit ==
    /\ target_file = None
    /\ tmp_file = None
    /\ writer = WriterIdle
    /\ published = { }

\* no function under study has been given an input
PureInit ==
    /\ norm = [ url |-> << >>, results |-> << >> ]
    /\ pv = [ markdown |-> << >>, preview |-> None ]
    /\ ex = [ dir |-> << >>, result |-> None, output |-> None,
              manifest |-> None ]

AuxInit == PersistInit /\ PureInit

Init == ReducerInit /\ EngineInit /\ delivered = 0 /\ AuxInit

(***************************************************************************)
(* The reducer on its own: one action per message, any order.              *)
(***************************************************************************)
\* state' and effects' are what update returns for msg
Dispatch(msg) ==
    LET r == update(state, msg)
    IN  /\ Cardinality(DOMAIN r.state.jobs) <= MaxJobs
        /\ state' = r.state
        /\ effects' = r.effects
        /\ last_msg' = msg.type
        /\ issued' = issued \cup EnqueueUrlIds(r.effects)

InputChangedFrom(texts) ==
    \E text \in texts : Dispatch([ type |-> "InputChanged", text |-> text ])

InputChanged == InputChangedFrom(PasteInputs)

UrlsSubmitted == Dispatch([ type |-> "UrlsSubmitted" ])

RestoreCompletedJobs ==
    \E entries \in RestoreInputs :
        Dispatch([ type |-> "RestoreCompletedJobs", entries |-> entries ])

StopFinishClicked == Dispatch([ type |-> "StopFinishClicked" ])

ArchiveClicked == Dispatch([ type |-> "ArchiveClicked" ])

Tick == Dispatch([ type |-> "Tick" ])

NoOp == Dispatch([ type |-> "NoOp" ])

JobProgressFrom(ids, stages, tokenSet, byteSet, previews) ==
    \E id \in ids, stage \in stages, tokens \in tokenSet,
       bytes \in byteSet, preview \in previews :
        Dispatch([ type |-> "JobProgress", job_id |-> id, stage |-> stage,
                   tokens |-> tokens, bytes |-> bytes,
                   content_preview |-> preview ])

JobDoneFrom(ids, results, previews) ==
    \E id \in ids, result \in results, preview \in previews :
        Dispatch([ type |-> "JobDone", job_id |-> id, result |-> result,
                   content_preview |-> preview ])

JobSelected ==
    \E id \in MsgJobIds : Dispatch([ type |-> "JobSelected", job_id |-> id ])

\* the render loop reads and clears the dirty flag
ConsumeDirty ==
    /\ state' = consume_dirty(state)
    /\ UNCHANGED << effects, last_msg, issued >>

\* a step of the reducer alone: the engine and the channels stand still
ReducerStep(A) == A /\ UNCHANGED << engineVars, delivered, auxVars >>

ReducerNext ==
    \/ ReducerStep(InputChanged)
    \/ ReducerStep(UrlsSubmitted)
    \/ ReducerStep(RestoreCompletedJobs)
    \/ ReducerStep(StopFinishClicked)
    \/ ReducerStep(ArchiveClicked)
    \/ ReducerStep(Tick)
    \/ ReducerStep(NoOp)
    \/ ReducerStep(JobSelected)
    \/ ReducerStep(ConsumeDirty)

SpecReducer == Init /\ [][ReducerNext]_vars

(***************************************************************************)
(* The reducer under engine messages: one paste text, then any order of    *)
(* JobProgress (any stage, with or without a token count) and JobDone.     *)
(***************************************************************************)
JobPasteInputs == { << "a", "\n", "b", "\n" >> }
JobResults == { "Success", "Failed" }

JobsNext ==
    \/ ReducerStep(InputChangedFrom(JobPasteInputs))
    \/ ReducerStep(UrlsSubmitted)
    \/ ReducerStep(JobProgressFrom(MsgJobIds, StageSet, TokenValues,
                                   { None }, { None }))
    \/ ReducerStep(JobDoneFrom(MsgJobIds, JobResults, { None }))
    \/ ReducerStep(ConsumeDirty)

SpecJobs == Init /\ [][JobsNext]_vars

(***************************************************************************)
(* The reducer under pastes, restores and token reports: JobProgress at    *)
(* one stage with or without a token count, JobDone, in any order.         *)
(***************************************************************************)
MetricsStages == { "Tokenizing" }

MetricsNext ==
    \/ ReducerStep(InputChangedFrom(JobPasteInputs))
    \/ ReducerStep(UrlsSubmitted)
    \/ ReducerStep(RestoreCompletedJobs)
    \/ ReducerStep(JobProgressFrom(MsgJobIds, MetricsStages, TokenValues,
                                   { None }, { None }))
    \/ ReducerStep(JobDoneFrom(MsgJobIds, JobResults, { None }))
    \/ ReducerStep(ConsumeDirty)

SpecMetrics == Init /\ [][MetricsNext]_vars

(***************************************************************************)
(* harvester_engine: commands, events and the worker loop (engine.rs).     *)
(***************************************************************************)
CmdEnqueue(id, url) == [ type |-> "Enqueue", job_id |-> id, url |-> url ]
CmdStop == [ type |-> "Stop" ]
CmdExport == [ type |-> "Export" ]

\* engine.rs 140/198: the queue entry that stands for a pending export
ExportMarker == [ job_id |-> 0, url |-> ExportMarkerUrl ]

EventProgress(id, stage, bytes, tokens, preview) ==
    [ type |-> "Progress", job_id |-> id, stage |-> stage, bytes |-> bytes,
      tokens |-> tokens, content_preview |-> preview ]
EventCompleted(id, result) ==
    [ type |-> "JobCompleted", job_id |-> id, result |-> result ]
Failure(kind) == [ ok |-> FALSE, kind |-> kind ]
ProcessingTimeout(stage) ==
    [ ok |-> FALSE, kind |-> "ProcessingTimeout", stage |-> stage ]
Outcome(tokens, preview) ==
    [ ok |-> TRUE, tokens |-> Some(tokens), content_preview |-> Some(preview) ]

\* engine.rs 131-136 / 190-195: one Cancelled completion per drained entry
CancelledEvents(q) ==
    [ i \in 1..Len(q) |-> EventCompleted(q[i].job_id, Failure("Cancelled")) ]

\* an Enqueue arm that queues the job whether or not the engine was stopped
handle_enqueue_ignoring_stop(cmd, q, acc, tok, evs) ==
    [ queue |-> Append(q, [ job_id |-> cmd.job_id, url |-> cmd.url ]),
      accept_new |-> acc, cancel_token |-> tok, events |-> evs ]

\* engine.rs 117-126 and 177-186: the Enqueue arm
handle_enqueue(cmd, q, acc, tok, evs) ==
    IF acc
    THEN [ queue |-> Append(q, [ job_id |-> cmd.job_id, url |-> cmd.url ]),
           accept_new |-> acc, cancel_token |-> tok, events |-> evs ]
    ELSE [ queue |-> q, accept_new |-> acc, cancel_token |-> tok,
           events |-> Append(evs, EventCompleted(cmd.job_id,
                                                 Failure("Cancelled"))) ]

\* engine.rs 116-142 and 176-200: what the worker does with one command;
\* [queue, accept_new, cancel_token, events]
handle_command(cmd, q, acc, tok, evs) ==
    CASE cmd.type = "Enqueue" -> handle_enqueue(cmd, q, acc, tok, evs)
      [] cmd.type = "Stop" ->
             [ queue |-> << >>, accept_new |-> FALSE, cancel_token |-> TRUE,
               events |-> evs \o CancelledEvents(q) ]
      [] cmd.type = "Export" ->
             [ queue |-> << ExportMarker >> \o q, accept_new |-> acc,
               cancel_token |-> tok, events |-> evs ]

\* the worker takes the first command of the channel and handles it
TakeCommand ==
    LET cmd == Head(cmd_rx)
        r == handle_command(cmd, queue, accept_new, cancel_token, events)
    IN  /\ cmd_rx' = Tail(cmd_rx)
        /\ queue' = r.queue
        /\ accept_new' = r.accept_new
        /\ cancel_token' = r.cancel_token
        /\ events' = r.events
        /\ received' = IF cmd.type = "Enqueue"
                       THEN received \cup { cmd.job_id } ELSE received
        /\ taken' = Append(taken, cmd)

\* engine.rs 115: while let Ok(cmd) = cmd_rx.try_recv()
WorkerTryRecv ==
    /\ wpc = "drain"
    /\ cmd_rx # << >>
    /\ TakeCommand
    /\ UNCHANGED << wpc, job, exports >>

\* engine.rs 115: try_recv finds the channel empty, the loop goes on to pop
WorkerTryRecvEmpty ==
    /\ wpc = "drain"
    /\ cmd_rx = << >>
    /\ wpc' = "pop"
    /\ UNCHANGED << cmd_rx, queue, accept_new, cancel_token, job, events,
                    received, taken, exports >>

\* a worker that runs the export as soon as its marker is popped
WorkerPopExportAtOnce ==
    /\ wpc = "pop"
    /\ queue # << >>
    /\ Head(queue).url = ExportMarkerUrl
    /\ queue' = Tail(queue)
    /\ exports' = exports + 1
    /\ events' = events
    /\ wpc' = "drain"
    /\ UNCHANGED << cmd_rx, accept_new, cancel_token, job, received, taken >>

\* engine.rs 145-163: the popped entry is the export marker
WorkerPopExport ==
    /\ wpc = "pop"
    /\ queue # << >>
    /\ Head(queue).url = ExportMarkerUrl
    /\ IF Tail(queue) = << >>
       THEN /\ queue' = << >>
            /\ exports' = exports + 1
            /\ \/ events' = events        \* build_concatenated_export: Ok
               \/ events' = Append(events,
                              EventCompleted(0, Failure("ProcessingError")))
       ELSE /\ queue' = Append(Tail(queue), Head(queue))
            /\ UNCHANGED << exports, events >>
    /\ wpc' = "drain"
    /\ UNCHANGED << cmd_rx, accept_new, cancel_token, job, received, taken >>

\* engine.rs 145, 164-170: the popped entry is a job; run_job starts
WorkerStartJob ==
    /\ wpc = "pop"
    /\ queue # << >>
    /\ Head(queue).url # ExportMarkerUrl
    /\ queue' = Tail(queue)
    /\ job' = [ pc |-> "fetch", job_id |-> Head(queue).job_id,
                url |-> Head(queue).url, bytes |-> 0 ]
    /\ wpc' = "run"
    /\ UNCHANGED << cmd_rx, accept_new, cancel_token, events, received, taken, exports >>

\* engine.rs 171-173: nothing queued, the worker blocks in cmd_rx.recv()
WorkerBlock ==
    /\ wpc = "pop"
    /\ queue = << >>
    /\ wpc' = "recv"
    /\ UNCHANGED << cmd_rx, queue, accept_new, cancel_token, job, events,
                    received, taken, exports >>

\* engine.rs 173-201: the blocking recv returns a command
WorkerRecv ==
    /\ wpc = "recv"
    /\ cmd_rx # << >>
    /\ TakeCommand
    /\ wpc' = "drain"
    /\ UNCHANGED << job, exports >>

(***************************************************************************)
(* harvester_engine: run_job (engine.rs 208-418) and the fetch stage       *)
(* (fetch.rs 107-201).  job.pc is the place run_job has reached.           *)
(***************************************************************************)
\* fetch.rs 113-160: failures before the body is streamed
FetchRequestFailures ==
    { "InvalidUrl", "HttpStatus", "TooLarge", "UnsupportedContentType",
      "Timeout", "RedirectLimitExceeded", "Network" }
\* fetch.rs 171-182: failures while the body is streamed
FetchStreamFailures == { "TooLarge", "Timeout", "Network" }

\* the page behind a URL, as far as the events show it
PagePreview == "p"
PageTokenCounts == { 1, 2 }

\* a run_job that reports a last stage after its terminal event
JobReturnsThenReports(result) ==
    /\ events' = events \o
           << EventCompleted(job.job_id, result),
              EventProgress(job.job_id, "Done", None, None, None) >>
    /\ job' = NoJob
    /\ wpc' = "drain"

\* run_job sends its terminal event and returns to worker_loop
JobReturns(result) ==
    /\ events' = Append(events, EventCompleted(job.job_id, result))
    /\ job' = NoJob
    /\ wpc' = "drain"

JobGoes(pc) == job' = [ job EXCEPT !.pc = pc ]

\* tokio::time::timeout returned Err(Elapsed) for a stage of the running job
Expires(stage) ==
    expired' = expired \cup { [ job_id |-> job.job_id, stage |-> stage ] }

\* the cancellation checks of run_job and the stage each one guards
CheckBefore ==
    [ check_decode |-> "decode", check_extract |-> "extract",
      check_tokenize |-> "tokenize", check_write |-> "write" ]

\* a fetch that starts streaming without the 0-byte Downloading event
FetchSilentStart ==
    /\ wpc = "run" /\ job.pc = "fetch"
    /\ \/ \E kind \in FetchRequestFailures : JobReturns(Failure(kind))
       \/ JobGoes("stream") /\ UNCHANGED << wpc, events >>
    /\ UNCHANGED << cmd_rx, queue, accept_new, cancel_token, received, taken, exports >>

\* fetch.rs 113-167: the request; on success the 0-byte Downloading event
Fetch ==
    /\ wpc = "run" /\ job.pc = "fetch"
    /\ \/ \E kind \in FetchRequestFailures : JobReturns(Failure(kind))
       \/ /\ events' = Append(events,
                 EventProgress(job.job_id, "Downloading", Some(0), None, None))
          /\ JobGoes("stream")
          /\ UNCHANGED wpc
    /\ UNCHANGED << cmd_rx, queue, accept_new, cancel_token, received, taken, exports >>

\* fetch.rs 171-190: one chunk of the body
FetchChunk ==
    /\ wpc = "run" /\ job.pc = "stream"
    /\ job.bytes < MaxChunks
    /\ \/ \E kind \in FetchStreamFailures : JobReturns(Failure(kind))
       \/ /\ job' = [ job EXCEPT !.bytes = @ + 1 ]
          /\ events' = Append(events,
                 EventProgress(job.job_id, "Downloading", Some(job.bytes + 1),
                               None, None))
          /\ UNCHANGED wpc
    /\ UNCHANGED << cmd_rx, queue, accept_new, cancel_token, received, taken, exports >>

\* fetch.rs 171, 192-200: the stream ends, fetch returns Ok
FetchEnd ==
    /\ wpc = "run" /\ job.pc = "stream"
    /\ JobGoes("check_decode")
    /\ UNCHANGED << cmd_rx, queue, accept_new, cancel_token, wpc, events,
                    received, taken, exports >>

\* engine.rs 241-247, 276-282, 332-338, 365-371: cancel_token.is_cancelled()
CheckCancelled ==
    /\ wpc = "run" /\ job.pc \in DOMAIN CheckBefore
    /\ IF cancel_token
       THEN JobReturns(Failure("Cancelled"))
       ELSE JobGoes(CheckBefore[job.pc]) /\ UNCHANGED << wpc, events >>
    /\ UNCHANGED << cmd_rx, queue, accept_new, cancel_token, received, taken, exports >>

\* engine.rs 249-274: decode_html under extract_timeout
Decode ==
    /\ wpc = "run" /\ job.pc = "decode"
    /\ \/ JobGoes("check_extract") /\ UNCHANGED << wpc, events, expired >>
       \/ JobReturns(Failure("ProcessingError")) /\ UNCHANGED expired
       \/ JobReturns(ProcessingTimeout("Sanitizing")) /\ Expires("decode")
    /\ UNCHANGED << cmd_rx, queue, accept_new, cancel_token, received, taken, exports >>

\* engine.rs 284-299: extract under extract_timeout
Extract ==
    /\ wpc = "run" /\ job.pc = "extract"
    /\ \/ JobGoes("convert") /\ UNCHANGED << wpc, events, expired >>
       \/ JobReturns(ProcessingTimeout("Converting")) /\ Expires("extract")
    /\ UNCHANGED << cmd_rx, queue, accept_new, cancel_token, received, taken, exports >>

\* engine.rs 301-330: to_markdown under convert_timeout, then the preview event
Convert ==
    /\ wpc = "run" /\ job.pc = "convert"
    /\ \/ /\ events' = Append(events,
                 EventProgress(job.job_id, "Converting", None, None,
                               Some(PagePreview)))
          /\ JobGoes("check_tokenize")
          /\ UNCHANGED << wpc, expired >>
       \/ JobReturns(ProcessingTimeout("Converting")) /\ Expires("convert")
    /\ UNCHANGED << cmd_rx, queue, accept_new, cancel_token, received, taken, exports >>

\* engine.rs 340-363: count under tokenize_timeout, then the token event
Tokenize ==
    /\ wpc = "run" /\ job.pc = "tokenize"
    /\ \/ \E t \in PageTokenCounts :
            /\ events' = Append(events,
                   EventProgress(job.job_id, "Tokenizing", None, Some(t), None))
            /\ job' = [ pc |-> "check_write", job_id |-> job.job_id,
                        url |-> job.url, bytes |-> job.bytes, tokens |-> t ]
            /\ UNCHANGED << wpc, expired >>
       \/ JobReturns(ProcessingTimeout("Tokenizing")) /\ Expires("tokenize")
    /\ UNCHANGED << cmd_rx, queue, accept_new, cancel_token, received, taken, exports >>

\* engine.rs 373-417: build the document, write it under writing_timeout
Write ==
    /\ wpc = "run" /\ job.pc = "write"
    /\ \/ JobReturns(Outcome(job.tokens, PagePreview)) /\ UNCHANGED expired
       \* Ok(Ok(Err(_))): the write failed
       \/ JobReturns(Failure("ProcessingError")) /\ UNCHANGED expired
       \* Err(_): writing_timeout expired; the same arm of the match
       \/ JobReturns(Failure("ProcessingError")) /\ Expires("write")
    /\ UNCHANGED << cmd_rx, queue, accept_new, cancel_token, received, taken, exports >>

(***************************************************************************)
(* The engine on its own: EngineHandle::enqueue, stop and request_export   *)
(* called in any order (engine.rs 79-92), job ids fresh as the reducer     *)
(* hands them out.                                                         *)
(***************************************************************************)
EngineUrls == { << "a" >>, ExportMarkerUrl }

\* the job run_job is executing, with its position, if there is one
StopFinds ==
    IF job = NoJob THEN { } ELSE { [ job_id |-> job.job_id, pc |-> job.pc ] }

SendCommand(cmd) ==
    /\ sent < MaxCmds
    /\ cmd_rx' = Append(cmd_rx, cmd)
    /\ sent' = sent + 1

EnqueuedIds == received \cup { cmd_rx[i].job_id : i \in { k \in 1..Len(cmd_rx) :
                                                cmd_rx[k].type = "Enqueue" } }

HandleEnqueue ==
    /\ Cardinality(EnqueuedIds) < MaxJobs
    /\ \E url \in EngineUrls :
          SendCommand(CmdEnqueue(Cardinality(EnqueuedIds) + 1, url))
    /\ UNCHANGED << queue, accept_new, cancel_token, wpc, job, events,
                    received, taken, exports, interrupted >>

\* stop() only sends the command; what the worker is doing then is recorded
HandleStop ==
    /\ SendCommand(CmdStop)
    /\ interrupted' = interrupted \cup StopFinds
    /\ UNCHANGED << queue, accept_new, cancel_token, wpc, job, events,
                    received, taken, exports >>

HandleRequestExport ==
    /\ SendCommand(CmdExport)
    /\ UNCHANGED << queue, accept_new, cancel_token, wpc, job, events,
                    received, taken, exports, interrupted >>

\* a step of the engine alone: the reducer stands still
EngineStep(A) ==
    A /\ UNCHANGED << reducerVars, delivered, expired, auxVars >>
\* a step of the worker thread: nothing is sent on cmd_tx
WorkerStep(A) ==
    A /\ UNCHANGED << sent, reducerVars, delivered, expired, interrupted,
                      auxVars >>
\* a step of run_job in a stage that runs under a timeout
StageStep(A) ==
    A /\ UNCHANGED << sent, reducerVars, delivered, interrupted, auxVars >>

EngineNext ==
    \/ EngineStep(HandleEnqueue)
    \/ EngineStep(HandleStop)
    \/ EngineStep(HandleRequestExport)
    \/ WorkerStep(WorkerTryRecv)
    \/ WorkerStep(WorkerTryRecvEmpty)
    \/ WorkerStep(WorkerPopExport)
    \/ WorkerStep(WorkerStartJob)
    \/ WorkerStep(WorkerBlock)
    \/ WorkerStep(WorkerRecv)
    \/ WorkerStep(Fetch)
    \/ WorkerStep(FetchChunk)
    \/ WorkerStep(FetchEnd)
    \/ WorkerStep(CheckCancelled)
    \/ StageStep(Decode)
    \/ StageStep(Extract)
    \/ StageStep(Convert)
    \/ StageStep(Tokenize)
    \/ StageStep(Write)

SpecEngine == Init /\ [][EngineNext]_vars

\* the worker thread alone; it is scheduled whenever it has a step to take
WorkerNext ==
    \/ WorkerStep(WorkerTryRecv)
    \/ WorkerStep(WorkerTryRecvEmpty)
    \/ WorkerStep(WorkerPopExport)
    \/ WorkerStep(WorkerStartJob)
    \/ WorkerStep(WorkerBlock)
    \/ WorkerStep(WorkerRecv)
    \/ WorkerStep(Fetch)
    \/ WorkerStep(FetchChunk)
    \/ WorkerStep(FetchEnd)
    \/ WorkerStep(CheckCancelled)
    \/ StageStep(Decode)
    \/ StageStep(Extract)
    \/ StageStep(Convert)
    \/ StageStep(Tokenize)
    \/ StageStep(Write)

SpecEngineFair == Init /\ [][EngineNext]_vars /\ WF_vars(WorkerNext)

(***************************************************************************)
(* The application: the reducer, the effect runner and the engine together *)
(* (harvester_app, platform/app.rs and platform/effects.rs).               *)
(***************************************************************************)
\* Effect::ArchiveRequested asks the engine for an export
archive_requested_commands == << CmdExport >>

\* effects.rs 29-50: EffectRunner::enqueue, the commands sent for the effects
RECURSIVE effect_commands(_)
effect_commands(effs) ==
    IF effs = << >> THEN << >>
    ELSE LET e == Head(effs)
             cmds == CASE e.type = "EnqueueUrl" ->
                              << CmdEnqueue(e.job_id, e.url) >>
                       [] e.type = "StartSession" -> << >>
                       [] e.type = "StopFinish" -> << CmdStop >>
                       [] e.type = "ArchiveRequested" ->
                              archive_requested_commands
         IN  cmds \o effect_commands(Tail(effs))

\* effects.rs 56-76: the message the event loop sends for an engine event
event_msg(ev) ==
    IF ev.type = "Progress"
    THEN [ type |-> "JobProgress", job_id |-> ev.job_id, stage |-> ev.stage,
           tokens |-> ev.tokens, bytes |-> ev.bytes,
           content_preview |-> ev.content_preview ]
    ELSE [ type |-> "JobDone", job_id |-> ev.job_id,
           result |-> IF ev.result.ok THEN "Success" ELSE "Failed",
           content_preview |-> IF ev.result.ok
                               THEN ev.result.content_preview ELSE None ]

\* app.rs 103-142: dispatch_msg: update, consume_dirty, then the effects
dispatch_msg(msg) ==
    LET r == update(state, msg)
        cmds == effect_commands(r.effects)
    IN  /\ Cardinality(DOMAIN r.state.jobs) <= MaxJobs
        /\ sent + Len(cmds) <= MaxCmds
        /\ state' = consume_dirty(r.state)
        /\ effects' = r.effects
        /\ last_msg' = msg.type
        /\ issued' = issued \cup EnqueueUrlIds(r.effects)
        /\ cmd_rx' = cmd_rx \o cmds
        /\ sent' = sent + Len(cmds)
        /\ interrupted' = IF \E i \in DOMAIN cmds : cmds[i] = CmdStop
                          THEN interrupted \cup StopFinds ELSE interrupted

\* what the user types in the application runs
AppPasteInputs == { << "a" >> }

\* messages from the window
AppInputChanged ==
    \E text \in AppPasteInputs :
        dispatch_msg([ type |-> "InputChanged", text |-> text ])
AppUrlsSubmitted == dispatch_msg([ type |-> "UrlsSubmitted" ])
AppStopFinishClicked == dispatch_msg([ type |-> "StopFinishClicked" ])
AppArchiveClicked == dispatch_msg([ type |-> "ArchiveClicked" ])

\* effects.rs 52-83 and app.rs 103-142: the next engine event reaches update
DeliverEvent ==
    /\ delivered < Len(events)
    /\ dispatch_msg(event_msg(events[delivered + 1]))
    /\ delivered' = delivered + 1

\* a step of the UI thread: the worker's own variables stand still
UiStep(A) ==
    A /\ UNCHANGED << queue, accept_new, cancel_token, wpc, job, events,
                      received, taken, exports, delivered, expired,
                      auxVars >>
\* the UI thread handles a message made from an engine event
EventStep(A) ==
    A /\ UNCHANGED << queue, accept_new, cancel_token, wpc, job, events,
                      received, taken, exports, expired, auxVars >>

Next ==
    \/ UiStep(AppInputChanged)
    \/ UiStep(AppUrlsSubmitted)
    \/ UiStep(AppStopFinishClicked)
    \/ UiStep(AppArchiveClicked)
    \/ EventStep(DeliverEvent)
    \/ WorkerStep(WorkerTryRecv)
    \/ WorkerStep(WorkerTryRecvEmpty)
    \/ WorkerStep(WorkerPopExport)
    \/ WorkerStep(WorkerStartJob)
    \/ WorkerStep(WorkerBlock)
    \/ WorkerStep(WorkerRecv)
    \/ WorkerStep(Fetch)
    \/ WorkerStep(FetchChunk)
    \/ WorkerStep(FetchEnd)
    \/ WorkerStep(CheckCancelled)
    \/ StageStep(Decode)
    \/ StageStep(Extract)
    \/ StageStep(Convert)
    \/ StageStep(Tokenize)
    \/ StageStep(Write)

Spec == Init /\ [][Next]_vars

(***************************************************************************)
(* Properties of the reducer.                                              *)
(***************************************************************************)
\* the lines of the pending input, and which of them survive the dedupe
PastedUrls == parse_urls(state.ui.input)
NormalizedAt(i) == normalize_url_for_dedupe(PastedUrls[i])
FreshAt(i) ==
    /\ NormalizedAt(i) \notin state.seen_urls
    /\ \A j \in 1..(i - 1) : NormalizedAt(j) # NormalizedAt(i)
FreshUrls ==
    LET F[i \in 0..Len(PastedUrls)] ==
            IF i = 0 THEN << >>
            ELSE IF FreshAt(i) THEN Append(F[i - 1], PastedUrls[i])
            ELSE F[i - 1]
    IN  F[Len(PastedUrls)]
EnqueueUrlEffects(effs) == SelectSeq(effs, IsEnqueueUrl)
GateClosed == state.session \in { "Finishing", "Finished" }
AcceptedPaste == UrlsSubmitted /\ ~GateClosed /\ PastedUrls # << >>

\* C2: while the session is Finishing or Finished, UrlsSubmitted returns the
\* state exactly as it was (no job, same session, seen_urls, next_job_id and
\* last_paste_stats, dirty not set) and an empty effect list.
C2_GateLeavesStateUnchanged ==
    [][ (UrlsSubmitted /\ GateClosed) => (state' = state /\ effects' = << >>)
      ]_vars

\* a paste of a never-seen URL was just refused in Finishing, with the render
\* flag still clear
C2_Witness ==
    /\ last_msg = "UrlsSubmitted"
    /\ state.session = "Finishing"
    /\ FreshUrls # << >>
    /\ ~state.dirty

\* C3: an accepted paste creates one job and one EnqueueUrl per line whose
\* normalized URL was neither in seen_urls nor earlier in the same paste, in
\* input order, records last_paste_stats = {enqueued, skipped}, and never
\* shrinks seen_urls.
C3_PasteDedupe ==
    [][ AcceptedPaste =>
          LET n == Len(FreshUrls)
              first == state.next_job_id
          IN  /\ DOMAIN state'.jobs = DOMAIN state.jobs \cup first..(first + n - 1)
              /\ Cardinality(DOMAIN state'.jobs)
                     = Cardinality(DOMAIN state.jobs) + n
              /\ \A id \in DOMAIN state.jobs : state'.jobs[id] = state.jobs[id]
              /\ \A k \in 1..n : state'.jobs[first + k - 1].url = FreshUrls[k]
              /\ EnqueueUrlEffects(effects')
                     = [ k \in 1..n |->
                           EffectEnqueueUrl(first + k - 1, FreshUrls[k]) ]
              /\ state'.last_paste_stats
                     = Some([ enqueued |-> n,
                              skipped |-> Len(PastedUrls) - n ])
              /\ Cardinality(state'.seen_urls) >= Cardinality(state.seen_urls)
      ]_vars

\* a paste of two lines with the same normalized URL: one enqueued, one skipped
C3_Witness ==
    /\ last_msg = "UrlsSubmitted"
    /\ Len(PastedUrls) = 2
    /\ NormalizedAt(1) = NormalizedAt(2)
    /\ state.last_paste_stats = Some([ enqueued |-> 1, skipped |-> 1 ])
    /\ Len(EnqueueUrlEffects(effects)) = 1

\* C6: once the session is Finishing (or Finished) it is never Idle or
\* Running again.
C6_FinishingIsFinal ==
    [][ GateClosed => state'.session \in { "Finishing", "Finished" } ]_vars

\* C7: a paste with a surviving URL in Idle moves the session to Running and
\* returns StartSession followed by the EnqueueUrl effects in order; in
\* Running it returns EnqueueUrl effects only; no other step returns
\* StartSession.
C7_StartSessionOnce ==
    [][ /\ (AcceptedPaste /\ FreshUrls # << >> /\ state.session = "Idle") =>
              /\ state'.session = "Running"
              /\ effects' # << >>
              /\ Head(effects') = EffectStartSession
              /\ Tail(effects') = EnqueueUrlEffects(effects')
              /\ [ k \in 1..Len(FreshUrls) |-> Tail(effects')[k].url ] = FreshUrls
        /\ (AcceptedPaste /\ state.session = "Running") =>
              /\ state'.session = "Running"
              /\ effects' = EnqueueUrlEffects(effects')
        /\ (~ConsumeDirty /\ \E i \in DOMAIN effects' :
                                 effects'[i] = EffectStartSession) =>
              /\ state.session = "Idle"
              /\ state'.session = "Running"
      ]_vars

\* a paste accepted while Running returned EnqueueUrl effects and nothing else
C7_Witness ==
    /\ last_msg = "UrlsSubmitted"
    /\ state.session = "Running"
    /\ effects # << >>
    /\ effects = EnqueueUrlEffects(effects)
    /\ Cardinality(DOMAIN state.jobs) = 2

\* C8: job ids start at 1 and every EnqueueUrl effect carries an id strictly
\* greater than every id issued before it, so no id is issued twice.
C8_JobIdsNeverReused ==
    [][ ~ConsumeDirty =>
          \A i \in DOMAIN effects' :
              IsEnqueueUrl(effects'[i]) =>
                  /\ effects'[i].job_id >= 1
                  /\ \A id \in issued : effects'[i].job_id > id
                  /\ \A j \in 1..(i - 1) :
                         IsEnqueueUrl(effects'[j]) =>
                             effects'[i].job_id > effects'[j].job_id
      ]_vars

\* C9: every job whose outcome is set has stage Done.
C9_OutcomeImpliesDone ==
    \A id \in DOMAIN state.jobs :
        is_some(state.jobs[id].outcome) => state.jobs[id].stage = "Done"

\* the sum of the token counts stored in the jobs with ids in ids
RECURSIVE StoredTokens(_)
StoredTokens(ids) ==
    IF ids = { } THEN 0
    ELSE LET id == CHOOSE x \in ids : TRUE
         IN  unwrap_or(state.jobs[id].tokens, 0) + StoredTokens(ids \ { id })

\* C13: total_tokens is the sum over all jobs of the job's stored token count,
\* 0 for a job that has none.
C13_TotalTokensIsSum ==
    state.metrics.total_tokens = StoredTokens(DOMAIN state.jobs)

\* a token report has just been stored on top of an earlier, different one
C13_Witness ==
    /\ last_msg = "JobProgress"
    /\ DOMAIN state.jobs = { 1, 2 }
    /\ state.jobs[1].tokens = Some(2)
    /\ state.jobs[2].tokens = Some(1)
    /\ state.jobs[1].outcome = Some("Success")
    /\ state.metrics.total_tokens = 3

\* C14: the normalized form of every job's stored URL is in seen_urls.
C14_JobUrlsAreSeen ==
    \A id \in DOMAIN state.jobs :
        normalize_url_for_dedupe(state.jobs[id].url) \in state.seen_urls

\* a restored job whose stored URL differs from its normalized form, next to
\* a pasted job
C14_Witness ==
    /\ DOMAIN state.jobs = { 1, 2 }
    /\ state.jobs[1].url # normalize_url_for_dedupe(state.jobs[1].url)
    /\ state.jobs[1].stage = "Done"
    /\ state.jobs[2].stage = "Queued"

(***************************************************************************)
(* Properties of the engine.                                               *)
(***************************************************************************)
CompletionCount(id) ==
    Cardinality({ i \in DOMAIN events :
                    events[i].type = "JobCompleted" /\ events[i].job_id = id })
\* the worker has handled every command and every queue entry and is blocked
WorkerDrained == wpc = "recv" /\ cmd_rx = << >> /\ queue = << >>

\* C1: every job id the worker was sent gets exactly one JobCompleted: never
\* two, and never none once the worker has drained its queue.
C1_ExactlyOneCompletion ==
    \A id \in received :
        /\ CompletionCount(id) <= 1
        /\ WorkerDrained => CompletionCount(id) = 1

\* C4: the step that handles Stop emits one JobCompleted{Cancelled} per queued
\* job, in enqueue order, and nothing else, and leaves the queue empty.
IsQueuedJob(e) == e # ExportMarker
StopTaken == cmd_rx # << >> /\ Head(cmd_rx) = CmdStop /\ cmd_rx' = Tail(cmd_rx)
C4_StopCancelsQueuedJobs ==
    [][ StopTaken =>
          /\ events' = events \o CancelledEvents(SelectSeq(queue, IsQueuedJob))
          /\ queue' = << >>
      ]_vars

\* C5: each of Decode, Extract, Convert, Tokenize and Write is entered only
\* from a cancellation check that found the flag down, and a check that finds
\* the flag raised ends the job with Cancelled.
StageBoundary ==
    [ decode |-> "check_decode", extract |-> "check_extract",
      convert |-> "check_convert", tokenize |-> "check_tokenize",
      write |-> "check_write" ]
C5_CheckAtEveryBoundary ==
    [][ /\ \A s \in DOMAIN StageBoundary :
              (job'.pc = s /\ job.pc # s) =>
                  (job.pc = StageBoundary[s] /\ ~cancel_token)
        /\ \A s \in DOMAIN StageBoundary :
              (job.pc = StageBoundary[s] /\ cancel_token /\ job' # job) =>
                  /\ job' = NoJob
                  /\ events' = Append(events,
                         EventCompleted(job.job_id, Failure("Cancelled")))
      ]_vars

\* what AppState::view shows (state.rs 45-77), read off the state
Observable(st) ==
    [ session |-> st.session, queued_urls |-> st.ui.urls, jobs |-> st.jobs,
      last_paste_stats |-> st.last_paste_stats,
      total_tokens |-> st.metrics.total_tokens, preview |-> st.ui.preview ]

\* C15: an update that changes an observable field sets dirty, an update that
\* changes none leaves dirty as it was, and consume_dirty clears it.
C15_DirtyIffChanged ==
    [][ IF ConsumeDirty
        THEN ~state'.dirty
        ELSE IF Observable(state') # Observable(state)
             THEN state'.dirty
             ELSE state'.dirty = state.dirty
      ]_vars

\* C16: a JobProgress or JobDone for a job id that is not in jobs leaves the
\* whole state as it was and returns no effects.
UnknownJobMessage ==
    \E id \in MsgJobIds \ DOMAIN state.jobs :
        \/ JobProgressFrom({ id }, MetricsStages, TokenValues, { None }, { None })
        \/ JobDoneFrom({ id }, JobResults, { None })
C16_UnknownJobIgnored ==
    [][ UnknownJobMessage => (state' = state /\ effects' = << >>) ]_vars

\* a JobProgress for job 2 has just been dropped: the only job is the restored
\* job 1, still Done, and no render is pending
C16_Witness ==
    /\ last_msg = "JobProgress"
    /\ DOMAIN state.jobs = { 1 }
    /\ state.jobs[1].stage = "Done"
    /\ state.metrics.total_tokens = 1
    /\ ~state.dirty

\* C17: StopFinishClicked in Running moves the session to Finishing and
\* returns exactly StopFinish{Finish}; in any other session state it changes
\* nothing and returns no effects; a session that is Finishing or Finished
\* does not get back to Running without passing Idle.
C17_StopOnlyWhenRunning ==
    [][ /\ StopFinishClicked =>
              IF state.session = "Running"
              THEN /\ state' = [ state EXCEPT !.session = "Finishing",
                                               !.dirty = TRUE ]
                   /\ effects' = << EffectStopFinish("Finish") >>
              ELSE state' = state /\ effects' = << >>
        /\ (~ConsumeDirty /\ \E i \in DOMAIN effects' :
                                 effects'[i].type = "StopFinish") =>
              state.session = "Running"
        /\ GateClosed => state'.session # "Running"
      ]_vars

\* the stop button was pressed in Running, and pressed again in Finishing
C17_Witness ==
    /\ last_msg = "StopFinishClicked"
    /\ state.session = "Finishing"
    /\ effects = << >>
    /\ ~state.dirty

\* the events of one job, by their positions in the stream
IsProgressOf(i, id) == events[i].type = "Progress" /\ events[i].job_id = id
IsCompletedOf(i, id) == events[i].type = "JobCompleted" /\ events[i].job_id = id
EventJobIds == { events[i].job_id : i \in DOMAIN events }

\* C11: the Progress events of one job carry non-decreasing stages
\* (Downloading, Converting, Tokenizing), and its Downloading events carry
\* non-decreasing byte counts, the first of them 0.
C11_ProgressInStageOrder ==
    \A id \in EventJobIds :
        /\ \A i, j \in DOMAIN events :
              (i < j /\ IsProgressOf(i, id) /\ IsProgressOf(j, id)) =>
                  /\ StageIndex(events[i].stage) <= StageIndex(events[j].stage)
                  /\ (events[i].stage = "Downloading"
                        /\ events[j].stage = "Downloading") =>
                         events[i].bytes[1] <= events[j].bytes[1]
        /\ \A j \in DOMAIN events :
              (IsProgressOf(j, id)
                 /\ \A i \in 1..(j - 1) : ~IsProgressOf(i, id)) =>
                  /\ events[j].stage = "Downloading"
                  /\ events[j].bytes = Some(0)
        /\ \A j \in DOMAIN events :
              IsProgressOf(j, id) =>
                  events[j].stage \in { "Downloading", "Converting", "Tokenizing" }

\* a job that was downloaded in one chunk, converted, tokenized and written
C11_Witness ==
    \E k \in DOMAIN events :
        /\ k + 4 \in DOMAIN events
        /\ events[k] = EventProgress(1, "Downloading", Some(0), None, None)
        /\ events[k + 1] = EventProgress(1, "Downloading", Some(1), None, None)
        /\ IsProgressOf(k + 2, 1) /\ events[k + 2].stage = "Converting"
        /\ IsProgressOf(k + 3, 1) /\ events[k + 3].stage = "Tokenizing"
        /\ IsCompletedOf(k + 4, 1)

\* C12: no Progress event of a job follows that job's JobCompleted event.
C12_TerminalEventIsLast ==
    \A id \in EventJobIds :
        \A i, j \in DOMAIN events :
            (i < j /\ IsCompletedOf(i, id)) => ~IsProgressOf(j, id)

\* job 1 completed after reporting progress, and job 2 reported progress later
C12_Witness ==
    \E h, i, j \in DOMAIN events :
        /\ h < i /\ i < j
        /\ IsProgressOf(h, 1)
        /\ IsCompletedOf(i, 1)
        /\ IsProgressOf(j, 2)

\* the worker has handled a Stop; it is taking an Enqueue from the channel
StopHandled == \E i \in DOMAIN taken : taken[i] = CmdStop
EnqueueTaken ==
    cmd_rx # << >> /\ Head(cmd_rx).type = "Enqueue" /\ cmd_rx' = Tail(cmd_rx)

\* C18: after the worker has handled a Stop, an Enqueue appends exactly one
\* JobCompleted{Cancelled} for its job and queues nothing; accept_new stays
\* false and the cancellation flag stays raised; no job is queued or running.
C18_EnqueueAfterStopIsCancelled ==
    [][ StopHandled =>
          /\ EnqueueTaken =>
                /\ events' = Append(events,
                       EventCompleted(Head(cmd_rx).job_id, Failure("Cancelled")))
                /\ queue' = queue
          /\ ~accept_new' /\ cancel_token'
          /\ job' = NoJob
          /\ \A i \in DOMAIN queue' : queue'[i] = ExportMarker
      ]_vars

\* Stop was handled first and the Enqueue of job 1 after it
C18_Witness ==
    /\ Len(taken) = 2
    /\ taken[1] = CmdStop
    /\ taken[2].type = "Enqueue" /\ taken[2].job_id = 1
    /\ events = << EventCompleted(1, Failure("Cancelled")) >>
    /\ queue = << >>

ExportsTaken == Cardinality({ i \in DOMAIN taken : taken[i] = CmdExport })
ExportsPending == Cardinality({ i \in DOMAIN queue : queue[i] = ExportMarker })
C20_EveryExportRuns ==
    \A n \in 1..MaxCmds : (ExportsTaken >= n) ~> (exports >= n)

\* a necessary condition of C20: every Export the worker has received has
\* been executed or is still pending in the queue, so none is lost
NoExportLost == ExportsTaken <= exports + ExportsPending

(***************************************************************************)
(* Properties of the application.                                          *)
(***************************************************************************)
\* C10: a job record's stage only moves forward, one stage at a time; it
\* moves further than the next stage only by jumping to Done with outcome
\* Failed, so a job that ends with Success has been in every stage.
C10_StagesInOrder ==
    [][ \A id \in DOMAIN state.jobs \cap DOMAIN state'.jobs :
          LET from == StageIndex(state.jobs[id].stage)
              to == StageIndex(state'.jobs[id].stage)
          IN  /\ to >= from
              /\ to > from + 1 =>
                    /\ state'.jobs[id].stage = "Done"
                    /\ state'.jobs[id].outcome = Some("Failed")
      ]_vars

(***************************************************************************)
(* AtomicFileWriter::write (harvester_engine/src/persist.rs), one action   *)
(* per file-system call.  A file is the sequence of bytes it holds; any    *)
(* call can fail, and a NamedTempFile dropped on the error path is removed.*)
(***************************************************************************)
PersistContents == { << "h", "e" >>, << "w", "o" >> }

\* the `?` on a failed call: tmp is dropped, the error is returned
write_fails ==
    /\ tmp_file' = None
    /\ writer' = [ writer EXCEPT !.pc = "idle", !.result = "Err" ]
    /\ UNCHANGED published

write_goes(pc) == writer' = [ writer EXCEPT !.pc = pc ]

AtomicWriteCall ==
    /\ writer.pc = "idle"
    /\ \E content \in PersistContents :
          writer' = [ pc |-> "ensure_output_dir", content |-> content,
                      before |-> target_file, result |-> "none" ]
    /\ UNCHANGED << target_file, tmp_file, published >>

AtomicWriteEnsureOutputDir ==
    /\ writer.pc = "ensure_output_dir"
    /\ \/ write_goes("new_in") /\ UNCHANGED << tmp_file, published >>
       \/ write_fails
    /\ UNCHANGED target_file

AtomicWriteNewTemp ==
    /\ writer.pc = "new_in"
    /\ \/ /\ tmp_file' = Some(<< >>)
          /\ write_goes("write_all")
          /\ UNCHANGED published
       \/ write_fails
    /\ UNCHANGED target_file

\* write_all loops over write calls: the bytes arrive one after the other
AtomicWriteAllInPlace ==
    /\ writer.pc = "write_all"
    /\ target_file' = Some(SubSeq(writer.content, 1, 1))
    /\ tmp_file' = Some(writer.content)
    /\ write_goes("flush")
    /\ UNCHANGED published
AtomicWriteAll ==
    /\ writer.pc = "write_all"
    /\ \/ LET n == Len(tmp_file[1]) + 1
          IN  /\ tmp_file' = Some(SubSeq(writer.content, 1, n))
              /\ write_goes(IF n = Len(writer.content)
                            THEN "flush" ELSE "write_all")
              /\ UNCHANGED published
       \/ write_fails
    /\ UNCHANGED target_file

AtomicWriteFlush ==
    /\ writer.pc = "flush"
    /\ \/ write_goes("sync_all") /\ UNCHANGED << tmp_file, published >>
       \/ write_fails
    /\ UNCHANGED target_file

AtomicWriteSyncAll ==
    /\ writer.pc = "sync_all"
    /\ \/ write_goes("remove_file") /\ UNCHANGED << tmp_file, published >>
       \/ write_fails
    /\ UNCHANGED target_file

\* if target.exists() { fs::remove_file(&target)?; }
AtomicWriteRemoveFile ==
    /\ writer.pc = "remove_file"
    /\ \/ /\ target_file' = None
          /\ write_goes("persist")
          /\ UNCHANGED << tmp_file, published >>
       \/ /\ is_some(target_file)
          /\ write_fails
          /\ UNCHANGED target_file

\* tmp.persist(&target): the rename, then Ok(target)
AtomicWritePersist ==
    /\ writer.pc = "persist"
    /\ \/ /\ target_file' = tmp_file
          /\ tmp_file' = None
          /\ published' = published \cup { writer.content }
          /\ writer' = [ writer EXCEPT !.pc = "idle", !.result = "Ok" ]
       \/ write_fails /\ UNCHANGED target_file

PersistStep(A) ==
    A /\ UNCHANGED << reducerVars, engineVars, delivered, pureVars >>

PersistNext ==
    \/ PersistStep(AtomicWriteCall)
    \/ PersistStep(AtomicWriteEnsureOutputDir)
    \/ PersistStep(AtomicWriteNewTemp)
    \/ PersistStep(AtomicWriteAll)
    \/ PersistStep(AtomicWriteFlush)
    \/ PersistStep(AtomicWriteSyncAll)
    \/ PersistStep(AtomicWriteRemoveFile)
    \/ PersistStep(AtomicWritePersist)

SpecPersist == Init /\ [][PersistNext]_vars

\* s is a prefix of t and shorter than t
IsProperPrefix(s, t) ==
    /\ Len(s) < Len(t)
    /\ s = SubSeq(t, 1, Len(s))

\* C21: at every step of a write and after an error the destination either
\* does not exist or holds the complete content of a write that returned Ok;
\* it never holds a proper prefix of the content being written.
C21_DestinationNeverPartial ==
    is_some(target_file) =>
        /\ target_file[1] \in published
        /\ ~IsProperPrefix(target_file[1], writer.content)

\* half of the new content is in the temp file, the old file is untouched
C21_Witness ==
    /\ writer.pc = "write_all"
    /\ writer.content = << "w", "o" >>
    /\ tmp_file = Some(<< "w" >>)
    /\ target_file = Some(<< "h", "e" >>)

\* C22: a write that returns an error leaves the destination as it was when
\* the write was called: same existence, same content.
C22_FailedWriteLeavesDestination ==
    (writer.pc = "idle" /\ writer.result = "Err") =>
        target_file = writer.before

(***************************************************************************)
(* Properties of restore and of pastes that only repeat known URLs.        *)
(***************************************************************************)
\* the sum of the token counts a snapshot carries
RECURSIVE RestoredTokens(_)
RestoredTokens(entries) ==
    IF entries = << >> THEN 0
    ELSE unwrap_or(Head(entries).tokens, 0) + RestoredTokens(Tail(entries))

\* spellings of url that normalize to the same key
UrlVariants(url) ==
    { v \in { url, url \o << "/" >>, << " " >> \o url \o << " " >>,
              trim_end_matches(url, "/") } :
        normalize_url_for_dedupe(v) = normalize_url_for_dedupe(url) }

\* st holds exactly the jobs of the snapshot, and pasting any of their
\* URLs again does nothing
RestoredFrom(st, entries) ==
    LET n == Len(entries)
    IN  /\ DOMAIN st.jobs = 1..n
        /\ \A i \in 1..n :
              /\ st.jobs[i].url = entries[i].url
              /\ st.jobs[i].stage = "Done"
              /\ st.jobs[i].outcome = Some("Success")
              /\ normalize_url_for_dedupe(entries[i].url) \in st.seen_urls
              /\ \A v \in UrlVariants(entries[i].url) :
                    LET r == urls_pasted(st, v)
                    IN  /\ r.effects = << >>
                        /\ r.state.jobs = st.jobs
        /\ st.next_job_id = n + 1
        /\ st.metrics.total_tokens = RestoredTokens(entries)

\* C23: a RestoreCompletedJobs message with n >= 1 entries leaves exactly n
\* jobs, ids 1..n in snapshot order, each Done with Success, whatever jobs
\* there were before; next_job_id is n + 1, total_tokens is the sum of the
\* restored token counts, and a later paste of a restored URL or of a variant
\* of it creates no job and returns no effects.
C23_RestoreReplacesJobs ==
    [][ \A entries \in RestoreInputs :
          ( /\ entries # << >>
            /\ last_msg' = "RestoreCompletedJobs"
            /\ state' = restore_completed_jobs(state, entries) )
          => RestoredFrom(state', entries) ]_vars

\* a snapshot of two entries restored over jobs made by an earlier paste
C23_Witness ==
    /\ last_msg = "RestoreCompletedJobs"
    /\ issued # { }
    /\ DOMAIN state.jobs = { 1, 2 }
    /\ state.jobs[1].url = << "a" >>
    /\ state.jobs[2].url = << "c" >>
    /\ state.jobs[2].stage = "Done"
    /\ state.metrics.total_tokens = 2

\* every line of the pending input is a URL that is already in seen_urls
AllDuplicates ==
    \A i \in 1..Len(PastedUrls) : NormalizedAt(i) \in state.seen_urls

UrlChars == { "a", "A", "/", " " }
UrlStrings == UNION { [ 1..n -> UrlChars ] : n \in 0..MaxUrlLen }

NormalizeInit ==
    /\ ReducerInit /\ EngineInit /\ delivered = 0 /\ PersistInit
    /\ pv = [ markdown |-> << >>, preview |-> None ]
    /\ ex = [ dir |-> << >>, result |-> None, output |-> None,
              manifest |-> None ]
    /\ \E url \in UrlStrings : norm = [ url |-> url, results |-> << >> ]

\* normalize the URL, then normalize the result
NormalizeUrl ==
    /\ Len(norm.results) < 2
    /\ LET arg == IF norm.results = << >> THEN norm.url
                  ELSE norm.results[Len(norm.results)]
       IN  norm' = [ norm EXCEPT
                       !.results = Append(@, normalize_url_for_dedupe(arg)) ]
    /\ UNCHANGED << reducerVars, engineVars, delivered, persistVars, pv, ex >>

NormalizeNext == NormalizeUrl

SpecNormalize == NormalizeInit /\ [][NormalizeNext]_vars

\* C25: normalizing a normalized URL changes nothing, for every string.
C25_NormalizeIdempotent ==
    Len(norm.results) = 2 => norm.results[2] = norm.results[1]

(***************************************************************************)
(* Properties of the stage timeouts.                                       *)
(***************************************************************************)
\* the Stage values that name each pipeline stage; extraction has no Stage
\* of its own and lies between Sanitizing and Converting
TimeoutStageNames ==
    [ decode |-> { "Sanitizing" }, extract |-> { "Sanitizing", "Converting" },
      convert |-> { "Converting" }, tokenize |-> { "Tokenizing" },
      write |-> { "Writing" } ]

\* C26: a job one of whose stages (decode, extract, convert, tokenize, write)
\* exceeded its timeout has completed with ProcessingTimeout{stage}, stage
\* naming the stage that timed out.
C26_TimeoutNamesItsStage ==
    \A e \in expired :
        \E i \in DOMAIN events, name \in TimeoutStageNames[e.stage] :
            events[i] = EventCompleted(e.job_id, ProcessingTimeout(name))

(***************************************************************************)
(* prepare_preview_content (harvester_engine/src/preview.rs).  A str is a  *)
(* sequence of chars; len() and slice indices count UTF-8 bytes, so a char *)
(* carries its encoded width.                                              *)
(***************************************************************************)
TRUNCATED_MARKER ==
    << "\n", ".", "[", "t", "r", "u", "n", "c", "a", "t", "e", "d", "]" >>

\* char::len_utf8 of the chars the documents are made of
len_utf8(c) == IF c = "<U+00E9>" THEN 2 ELSE IF c = "<U+20AC>" THEN 3 ELSE 1

\* str::len: the length in bytes
RECURSIVE str_len(_)
str_len(s) == IF s = << >> THEN 0 ELSE len_utf8(Head(s)) + str_len(Tail(s))

starts_with(s, p) == Len(s) >= Len(p) /\ SubSeq(s, 1, Len(p)) = p
ends_with(s, p) ==
    Len(s) >= Len(p) /\ SubSeq(s, Len(s) - Len(p) + 1, Len(s)) = p

\* str::find: the chars before the first occurrence of pat, if there is one
find(s, pat) ==
    LET hits == { i \in 0..(Len(s) - Len(pat)) :
                    SubSeq(s, i + 1, i + Len(pat)) = pat }
    IN  IF hits = { } THEN None
        ELSE Some(CHOOSE i \in hits : \A j \in hits : i <= j)

RECURSIVE trim_start_matches(_, _)
trim_start_matches(s, c) ==
    IF s # << >> /\ Head(s) = c THEN trim_start_matches(Tail(s), c) ELSE s

\* preview.rs 18-30
strip_frontmatter(markdown) ==
    LET prefix == << "-", "-", "-", "\n" >>
        close == << "\n", "-", "-", "-" >>
        rest == SubSeq(markdown, Len(prefix) + 1, Len(markdown))
        idx == find(rest, close)
        after == SubSeq(rest, idx[1] + Len(close) + 1, Len(rest))
    IN  IF starts_with(markdown, prefix) /\ is_some(idx)
        THEN trim_start_matches(
                 IF starts_with(after, << "\n" >>) THEN Tail(after) ELSE after,
                 "\n")
        ELSE markdown

\* str::is_char_boundary: the byte index falls between two chars
is_char_boundary(s, index) ==
    \E k \in 0..Len(s) : str_len(SubSeq(s, 1, k)) = index

\* a cut moved forward to the end of the char it falls in
RECURSIVE ceil_char_boundary(_, _)
ceil_char_boundary(s, end) ==
    IF end < str_len(s) /\ ~is_char_boundary(s, end)
    THEN ceil_char_boundary(s, end + 1) ELSE end

\* preview.rs 9-12: while end > 0 && !stripped.is_char_boundary(end)
RECURSIVE floor_char_boundary(_, _)
floor_char_boundary(s, end) ==
    IF end > 0 /\ ~is_char_boundary(s, end)
    THEN floor_char_boundary(s, end - 1) ELSE end

\* &s[..end] for a char boundary end
slice_to(s, end) ==
    SubSeq(s, 1, CHOOSE k \in 0..Len(s) : str_len(SubSeq(s, 1, k)) = end)

\* preview.rs 4-16
prepare_preview_content(markdown) ==
    LET stripped == strip_frontmatter(markdown)
    IN  IF str_len(stripped) <= MAX_PREVIEW_CONTENT
        THEN stripped
        ELSE slice_to(stripped,
                      floor_char_boundary(stripped, MAX_PREVIEW_CONTENT))
                 \o TRUNCATED_MARKER

\* documents: front matter or none, a run of one-byte chars, a short tail
PreviewChars == { "a", "<U+00E9>", "<U+20AC>" }
PreviewTails ==
    UNION { [ 1..n -> PreviewChars ] : n \in 0..2 } \cup { TRUNCATED_MARKER }
PreviewFrontMatters ==
    { << >>,
      << "-", "-", "-", "\n", "k", "\n", "-", "-", "-", "\n" >>,
      << "-", "-", "-", "\n", "k", "\n", "-", "-", "-", "\n", "\n", "\n" >>,
      << "-", "-", "-", "\n", "k", "\n" >> }
PreviewInputs ==
    { f \o [ i \in 1..k |-> "a" ] \o t :
        f \in PreviewFrontMatters, k \in 0..MAX_PREVIEW_CONTENT,
        t \in PreviewTails }

PreviewInit ==
    /\ ReducerInit /\ EngineInit /\ delivered = 0 /\ PersistInit
    /\ norm = [ url |-> << >>, results |-> << >> ]
    /\ ex = [ dir |-> << >>, result |-> None, output |-> None,
              manifest |-> None ]
    /\ \E markdown \in PreviewInputs :
          pv = [ markdown |-> markdown, preview |-> None ]

PreparePreview ==
    /\ pv.preview = None
    /\ pv' = [ pv EXCEPT !.preview = Some(prepare_preview_content(pv.markdown)) ]
    /\ UNCHANGED << reducerVars, engineVars, delivered, persistVars, norm,
                    ex >>

PreviewNext == PreparePreview

SpecPreview == PreviewInit /\ [][PreviewNext]_vars

\* s is the chars of t up to some char of t
IsCharPrefix(s, t) == Len(s) <= Len(t) /\ s = SubSeq(t, 1, Len(s))

\* C27 as stated: the preview has at most MAX_PREVIEW_CONTENT + 13 bytes, is
\* cut at a char boundary, and ends with the marker exactly when the document
\* without its front matter is longer than MAX_PREVIEW_CONTENT bytes.
C27_MarkerIffTruncated ==
    is_some(pv.preview) =>
        LET out == pv.preview[1]
            stripped == strip_frontmatter(pv.markdown)
        IN  /\ str_len(out) <= MAX_PREVIEW_CONTENT + str_len(TRUNCATED_MARKER)
            /\ ends_with(out, TRUNCATED_MARKER)
                   <=> (str_len(stripped) > MAX_PREVIEW_CONTENT)

\* C27, amended: the preview has at most MAX_PREVIEW_CONTENT + 13 bytes; a
\* document longer than MAX_PREVIEW_CONTENT bytes without its front matter is
\* cut at the last char boundary at or before MAX_PREVIEW_CONTENT and the
\* marker is appended; any other document is returned without its front
\* matter and otherwise unchanged, marker or not.
C27_PreviewBounded ==
    is_some(pv.preview) =>
        LET out == pv.preview[1]
            stripped == strip_frontmatter(pv.markdown)
            kept == SubSeq(out, 1, Len(out) - Len(TRUNCATED_MARKER))
        IN  /\ str_len(out) <= MAX_PREVIEW_CONTENT + str_len(TRUNCATED_MARKER)
            /\ IF str_len(stripped) > MAX_PREVIEW_CONTENT
               THEN /\ ends_with(out, TRUNCATED_MARKER)
                    /\ IsCharPrefix(kept, stripped)
                    /\ str_len(kept) <= MAX_PREVIEW_CONTENT
                    /\ str_len(SubSeq(stripped, 1, Len(kept) + 1))
                           > MAX_PREVIEW_CONTENT
               ELSE out = stripped

\* a document cut in the middle of a three-byte char, front matter stripped
C27_Witness ==
    /\ is_some(pv.preview)
    /\ starts_with(pv.markdown, << "-", "-", "-", "\n" >>)
    /\ str_len(strip_frontmatter(pv.markdown)) > MAX_PREVIEW_CONTENT
    /\ str_len(pv.preview[1])
           < MAX_PREVIEW_CONTENT + str_len(TRUNCATED_MARKER)
    /\ ends_with(pv.preview[1], TRUNCATED_MARKER)

(***************************************************************************)
(* build_concatenated_export (harvester_engine/src/export.rs).  A file's   *)
(* content is the sequence of its lines, each line a sequence of chars.    *)
(***************************************************************************)
FrontMatterFence == << "-", "-", "-" >>
KeyUrl == << "u", "r", "l" >>
KeyTitle == << "t", "i", "t", "l", "e" >>
KeyFetchedUtc == << "f", "e", "t", "c", "h", "e", "d", "_", "u", "t", "c" >>
KeyTokenCount == << "t", "o", "k", "e", "n", "_", "c", "o", "u", "n", "t" >>

\* str::split_once: the text before and after the first delimiter
split_once(line, delimiter) ==
    LET idx == find(line, << delimiter >>)
    IN  IF is_some(idx)
        THEN Some([ k |-> SubSeq(line, 1, idx[1]),
                    v |-> SubSeq(line, idx[1] + 2, Len(line)) ])
        ELSE None

\* str::parse::<u32> of a string of decimal digits
Digits == << "0", "1", "2", "3", "4", "5", "6", "7", "8", "9" >>
DigitValue(c) == (CHOOSE i \in DOMAIN Digits : Digits[i] = c) - 1
RECURSIVE parse_u32(_)
parse_u32(val) ==
    IF val = << >> \/ \E i \in DOMAIN val :
                          \A d \in DOMAIN Digits : Digits[d] # val[i]
    THEN None
    ELSE IF Len(val) = 1 THEN Some(DigitValue(val[1]))
    ELSE Some(parse_u32(SubSeq(val, 1, Len(val) - 1))[1] * 10
                  + DigitValue(val[Len(val)]))

DocMetaDefault(filename) ==
    [ url |-> << >>, title |-> << >>, fetched_utc |-> << >>,
      token_count |-> None, body |-> << >>, filename |-> filename ]

\* export.rs 144-150: the match on the key
set_meta_field(meta, key, val) ==
    IF key = KeyUrl THEN [ meta EXCEPT !.url = val ]
    ELSE IF key = KeyTitle THEN [ meta EXCEPT !.title = val ]
    ELSE IF key = KeyFetchedUtc THEN [ meta EXCEPT !.fetched_utc = val ]
    ELSE IF key = KeyTokenCount
    THEN [ meta EXCEPT !.token_count = parse_u32(val) ]
    ELSE meta

\* export.rs 141-151: a header line, split at its first ':' if it has one
parse_header_line(meta, kv) ==
    IF kv = None THEN meta
    ELSE set_meta_field(meta, trim(kv[1].k), trim(kv[1].v))

\* export.rs 137-154: the header lines up to the closing fence; what follows
\* is the body
RECURSIVE parse_header(_, _)
parse_header(rest, meta) ==
    IF rest = << >> THEN meta
    ELSE IF trim(Head(rest)) = FrontMatterFence
    THEN [ meta EXCEPT !.body = Tail(rest) ]
    ELSE parse_header(Tail(rest),
                      parse_header_line(meta, split_once(Head(rest), ":")))

\* export.rs 155-158: url, title and fetched_utc are required; [ok, meta]
require_fields(meta) ==
    IF meta.url = << >> \/ meta.title = << >> \/ meta.fetched_utc = << >>
    THEN [ ok |-> FALSE ]
    ELSE [ ok |-> TRUE, meta |-> meta ]

\* export.rs 128-159; [ok, meta]
parse_doc(content, filename) ==
    IF content = << >> \/ Head(content) # FrontMatterFence
    THEN [ ok |-> FALSE ]
    ELSE require_fields(parse_header(Tail(content), DocMetaDefault(filename)))

\* the *.md files an output directory can hold, in file-name order
ExportNames == << "a.md", "b.md", "c.md" >>

\* export.rs 59-64: the *.md entries sorted by file name
sorted_entries(dir) ==
    LET present == SelectSeq(ExportNames, LAMBDA n : n \in DOMAIN dir)
    IN  [ i \in 1..Len(present) |->
            [ file_name |-> present[i], content |-> dir[present[i]] ] ]

\* export.rs 66-72: parse every entry; the first error ends the export
RECURSIVE parse_entries(_, _)
parse_entries(entries, docs) ==
    IF entries = << >> THEN [ ok |-> TRUE, docs |-> docs ]
    ELSE LET r == parse_doc(Head(entries).content, Head(entries).file_name)
         IN  IF r.ok THEN parse_entries(Tail(entries), Append(docs, r.meta))
             ELSE [ ok |-> FALSE, file_name |-> Head(entries).file_name ]

\* a loop that leaves out the files parse_doc rejects
RECURSIVE parse_entries_skipping(_, _)
parse_entries_skipping(entries, docs) ==
    IF entries = << >> THEN [ ok |-> TRUE, docs |-> docs ]
    ELSE LET r == parse_doc(Head(entries).content, Head(entries).file_name)
         IN  parse_entries_skipping(Tail(entries),
                 IF r.ok THEN Append(docs, r.meta) ELSE docs)

\* export.rs 75-79
RECURSIVE sum_tokens(_)
sum_tokens(docs) ==
    IF docs = << >> THEN 0
    ELSE unwrap_or(Head(docs).token_count, 0) + sum_tokens(Tail(docs))

\* export.rs 74-125: the two writes and the summary, given the parsed
\* documents and whether each write succeeds; the result and the documents
\* of the two files written, if they were
write_export(docs, output_written, manifest_written) ==
    LET files == [ i \in 1..Len(docs) |-> docs[i].filename ]
    IN  IF ~output_written
        THEN [ result |-> [ ok |-> FALSE, error |-> "Persist" ],
               output |-> None, manifest |-> None ]
        ELSE IF ~manifest_written
        THEN [ result |-> [ ok |-> FALSE, error |-> "Persist" ],
               output |-> Some(files), manifest |-> None ]
        ELSE [ result |-> [ ok |-> TRUE, doc_count |-> Len(docs),
                            total_tokens |-> sum_tokens(docs) ],
               output |-> Some(files),
               manifest |-> Some([ doc_count |-> Len(docs),
                                   total_tokens |-> sum_tokens(docs),
                                   files |-> files ]) ]

\* export.rs 66-72: `?` on the error of parse_doc, before anything is written
export_parsed(parsed, output_written, manifest_written) ==
    IF parsed.ok
    THEN write_export(parsed.docs, output_written, manifest_written)
    ELSE [ result |-> [ ok |-> FALSE, error |-> "MissingFrontmatter",
                        file_name |-> parsed.file_name ],
           output |-> None, manifest |-> None ]

\* export.rs 55-126
build_concatenated_export(dir, output_written, manifest_written) ==
    export_parsed(parse_entries(sorted_entries(dir), << >>),
                  output_written, manifest_written)

\* documents as the engine writes them, and files that are not such documents
DocLine(key, val) == key \o << ":", " " >> \o val
DocContents ==
    { << FrontMatterFence, DocLine(KeyUrl, << "u" >>),
         DocLine(KeyTitle, << "t" >>), DocLine(KeyFetchedUtc, << "f" >>),
         DocLine(KeyTokenCount, << "1", "2" >>), FrontMatterFence,
         << "b" >> >>,
      << FrontMatterFence, DocLine(KeyTitle, << "t" >>),
         DocLine(KeyFetchedUtc, << "f" >>), DocLine(KeyUrl, << "u" >>),
         << " ", "-", "-", "-" >>, << "b" >> >>,              \* no token_count
      << << "b" >> >>,                                        \* no front matter
      << FrontMatterFence, DocLine(KeyUrl, << "u" >>),
         DocLine(KeyFetchedUtc, << "f" >>),
         DocLine(KeyTokenCount, << "3" >>), FrontMatterFence >>,  \* no title
      << FrontMatterFence, DocLine(KeyUrl, << >>),
         DocLine(KeyTitle, << "t" >>), DocLine(KeyFetchedUtc, << "f" >>),
         FrontMatterFence >> }                                \* empty url

ExportDirs ==
    UNION { [ names -> DocContents ] :
              names \in SUBSET { ExportNames[i] : i \in DOMAIN ExportNames } }

ExportInit ==
    /\ ReducerInit /\ EngineInit /\ delivered = 0 /\ PersistInit
    /\ norm = [ url |-> << >>, results |-> << >> ]
    /\ pv = [ markdown |-> << >>, preview |-> None ]
    /\ \E dir \in ExportDirs :
          ex = [ dir |-> dir, result |-> None, output |-> None,
                 manifest |-> None ]

BuildExport ==
    /\ ex.result = None
    /\ \E output_written, manifest_written \in BOOLEAN :
          LET r == build_concatenated_export(ex.dir, output_written,
                                             manifest_written)
          IN  ex' = [ ex EXCEPT !.result = Some(r.result),
                                !.output = r.output,
                                !.manifest = r.manifest ]
    /\ UNCHANGED << reducerVars, engineVars, delivered, persistVars, norm, pv >>

ExportNext == BuildExport

SpecExport == ExportInit /\ [][ExportNext]_vars

\* the files of the directory that carry url, title and fetched_utc
IncludedDocs(dir) == parse_entries_skipping(sorted_entries(dir), << >>).docs

\* C28: an export whose writes succeed skips the *.md files whose front
\* matter is missing or lacks url, title or fetched_utc, writes the
\* concatenated file and the manifest for the other files, and counts only
\* those in doc_count and total_tokens.
C28_ExportSkipsBadFiles ==
    (is_some(ex.result) /\ (ex.result[1].ok \/ ex.result[1].error # "Persist"))
        => LET docs == IncludedDocs(ex.dir)
               files == [ i \in 1..Len(docs) |-> docs[i].filename ]
           IN  /\ ex.result[1].ok
               /\ ex.result[1].doc_count = Len(docs)
               /\ ex.result[1].total_tokens = sum_tokens(docs)
               /\ ex.output = Some(files)
               /\ is_some(ex.manifest)
               /\ ex.manifest[1].files = files

(***************************************************************************)
(* Properties of Stop and of the order of jobs.                            *)
(***************************************************************************)
\* the positions of run_job that still have a cancellation check ahead
BeforeLastCheck ==
    { "fetch", "stream", "check_decode", "decode", "check_extract",
      "extract", "convert", "check_tokenize", "tokenize", "check_write" }

\* C29: a job that was executing, with a stage boundary still ahead, when
\* stop() was called does not run to completion: it never completes with an
\* outcome (its file written).
C29_StopCancelsRunningJob ==
    \A r \in interrupted :
        r.pc \in BeforeLastCheck =>
            ~\E i \in DOMAIN events :
                /\ IsCompletedOf(i, r.job_id)
                /\ events[i].result.ok

\* job ids are handed out in the order of the enqueue calls, and the channel
\* is FIFO: a smaller id was enqueued, and received, earlier
EnqueuedBefore(a, b) == a \in received /\ b \in received /\ a < b

\* the JobCompleted of job a precedes every Progress of job b
CompletesBeforeProgress(a, b) ==
    \A j \in DOMAIN events :
        IsProgressOf(j, b) => \E i \in 1..(j - 1) : IsCompletedOf(i, a)

\* C30: jobs run one at a time in the order their Enqueue commands were
\* received: the JobCompleted of a job precedes every Progress of any job
\* enqueued after it, with or without export markers in the queue.
C30_JobsInEnqueueOrder ==
    \A a \in received, b \in received :
        EnqueuedBefore(a, b) => CompletesBeforeProgress(a, b)

\* the URL of job id is not the text of the export marker
HasPlainUrl(id) ==
    \A i \in DOMAIN taken :
        (taken[i].type = "Enqueue" /\ taken[i].job_id = id)
            => taken[i].url # ExportMarkerUrl

\* the order does hold between jobs the worker does not take for a marker
JobsInEnqueueOrderUnlessMarkerUrl ==
    \A a \in received, b \in received :
        (EnqueuedBefore(a, b) /\ HasPlainUrl(a)) => CompletesBeforeProgress(a, b)

(***************************************************************************)
(* The reducer under job reports that carry previews: a paste of two URLs, *)
(* restores, Stop, JobProgress and JobDone with or without a preview, and  *)
(* JobSelected, in any order.                                              *)
(***************************************************************************)
PreviewValues == { None, Some("p"), Some("q") }
SelectionStages == { "Converting" }

SelectionNext ==
    \/ ReducerStep(InputChangedFrom(JobPasteInputs))
    \/ ReducerStep(UrlsSubmitted)
    \/ ReducerStep(RestoreCompletedJobs)
    \/ ReducerStep(StopFinishClicked)
    \/ ReducerStep(JobProgressFrom(MsgJobIds, SelectionStages, { None },
                                   { None }, PreviewValues))
    \/ ReducerStep(JobDoneFrom(MsgJobIds, JobResults, PreviewValues))
    \/ ReducerStep(JobSelected)

SpecSelection == Init /\ [][SelectionNext]_vars


\* C31: a JobDone{Success} that carries a preview stores that preview on the
\* job; a JobDone{Failed} leaves the job with no stored preview, whatever the
\* payload or the earlier stored preview was, and if the job is the selected
\* one the preview text of the UI becomes absent.
C31_DoneStoresOrClearsPreview ==
    [][ \A id \in MsgJobIds, preview \in PreviewValues :
          /\ ( /\ JobDoneFrom({ id }, { "Success" }, { preview })
               /\ id \in JobIds(state)
               /\ is_some(preview) )
             => state'.jobs[id].content_preview = preview
          /\ ( /\ JobDoneFrom({ id }, { "Failed" }, { preview })
               /\ id \in JobIds(state) )
             => /\ state'.jobs[id].content_preview = None
                /\ preview_job_id(state.ui.preview) = Some(id)
                   => preview_content(state'.ui.preview) = None ]_vars

\* a failed job is the selected one and shows no text, next to a job that
\* succeeded and keeps the preview its completion carried
C31_Witness ==
    /\ last_msg = "JobDone"
    /\ \E id \in JobIds(state) :
          /\ state.jobs[id].outcome = Some("Failed")
          /\ state.ui.preview = PreviewUnavailable(id)
    /\ \E id \in JobIds(state) :
          /\ state.jobs[id].outcome = Some("Success")
          /\ is_some(state.jobs[id].content_preview)

\* C32: a JobProgress that carries a preview for a job that is not the
\* selected one stores the preview on that job and leaves the preview of the
\* UI as it was; for the selected job the UI also shows the new preview.
C32_ProgressPreview ==
    [][ \A id \in MsgJobIds, preview \in PreviewValues \ { None } :
          ( /\ JobProgressFrom({ id }, SelectionStages, { None }, { None },
                               { preview })
            /\ id \in JobIds(state) )
          => /\ state'.jobs[id].content_preview = preview
             /\ IF preview_job_id(state.ui.preview) = Some(id)
                THEN /\ preview_job_id(state'.ui.preview) = Some(id)
                     /\ preview_content(state'.ui.preview) = preview
                ELSE state'.ui.preview = state.ui.preview ]_vars

\* the selected job shows the preview of its progress report while another
\* job, not selected, has a stored preview of its own
C32_Witness ==
    /\ last_msg = "JobProgress"
    /\ \E id \in JobIds(state), other \in JobIds(state) :
          /\ id # other
          /\ state.ui.preview.kind = "InProgress"
          /\ state.ui.preview.job_id = id
          /\ state.jobs[id].stage = "Converting"
          /\ state.jobs[other].stage = "Converting"
          /\ is_some(state.jobs[other].content_preview)
          /\ state.jobs[other].content_preview # state.jobs[id].content_preview

\* C39: whenever a job is selected it is a key of jobs and the preview text of
\* the UI is that job's stored content_preview (absent when it has none).
C39_SelectionMatchesJob ==
    \A id \in MsgJobIds :
        preview_job_id(state.ui.preview) = Some(id)
        => /\ id \in JobIds(state)
           /\ preview_content(state.ui.preview)
                  = state.jobs[id].content_preview

\* a restored job is selected after an earlier selection was cleared by the
\* restore, and it shows that it has no preview
C39_Witness ==
    /\ last_msg = "JobSelected"
    /\ \E id \in JobIds(state) :
          /\ state.ui.preview = PreviewUnavailable(id)
          /\ state.jobs[id].outcome = Some("Success")
          /\ state.jobs[id].stage = "Done"
          /\ state.jobs[id].content_preview = None


\* the jobs of st whose outcome is Success
SuccessIds(st) ==
    { id \in JobIds(st) : st.jobs[id].outcome = Some("Success") }

\* snap lists exactly the successful jobs of st, in ascending JobId order,
\* each with its url, tokens and bytes
ListsSuccesses(st, snap) ==
    /\ Len(snap) = Cardinality(SuccessIds(st))
    /\ \A id \in SuccessIds(st) :
          snap[Cardinality({ x \in SuccessIds(st) : x <= id })]
              = [ url    |-> st.jobs[id].url,
                  tokens |-> st.jobs[id].tokens,
                  bytes  |-> st.jobs[id].bytes ]

\* restoring snap into a fresh state gives snap back, and its token total
RestoresTo(restored, snap) ==
    /\ completed_jobs_snapshot(restored) = snap
    /\ restored.metrics.total_tokens = RestoredTokens(snap)

\* C33: completed_jobs_snapshot returns exactly the jobs whose outcome is
\* Success, in ascending JobId order, with their url, tokens and bytes;
\* restoring a non-empty snapshot into a fresh state and taking the snapshot
\* again yields the same list, and the restored total_tokens is the sum of the
\* snapshot's token counts.
C33_SnapshotRoundTrip ==
    /\ ListsSuccesses(state, completed_jobs_snapshot(state))
    /\ completed_jobs_snapshot(state) # << >>
       => RestoresTo(restore_completed_jobs(AppStateDefault,
                                            completed_jobs_snapshot(state)),
                     completed_jobs_snapshot(state))

\* a failed job with a lower id stands before a successful job that has a
\* token count: the snapshot holds the second job only
C33_Witness ==
    /\ last_msg = "JobDone"
    /\ \E id \in JobIds(state), later \in JobIds(state) :
          /\ id < later
          /\ state.jobs[id].outcome = Some("Failed")
          /\ state.jobs[later].outcome = Some("Success")
          /\ is_some(state.jobs[later].tokens)
          /\ Len(completed_jobs_snapshot(state)) = 1


\* the three steps as the specification words them: trim, lowercase, strip
\* one trailing '/'
strip_one_slash(s) ==
    IF s # << >> /\ s[Len(s)] = "/" THEN SubSeq(s, 1, Len(s) - 1) ELSE s
StepsWithOneSlash(url) == strip_one_slash(to_lowercase(trim(url)))

\* the same steps with every trailing '/' stripped
RECURSIVE strip_slashes(_)
strip_slashes(s) ==
    IF strip_one_slash(s) = s THEN s ELSE strip_slashes(strip_one_slash(s))
StepsWithAllSlashes(url) == strip_slashes(to_lowercase(trim(url)))

\* C34: two pasted URLs are duplicates (they have the same dedupe key) if and
\* only if they are equal after trimming surrounding whitespace, lowercasing
\* and stripping exactly one trailing '/'; so a URL ending in two slashes and
\* the same URL ending in one slash are distinct.
C34_DuplicatesIffEqualAfterOneSlash ==
    Len(norm.results) >= 1
    => \A other \in UrlStrings :
          (normalize_url_for_dedupe(other) = norm.results[1])
          <=> (StepsWithOneSlash(other) = StepsWithOneSlash(norm.url))

\* what the dedupe key does decide: equality after every trailing '/' is gone
DuplicatesIffEqualAfterAllSlashes ==
    Len(norm.results) >= 1
    => \A other \in UrlStrings :
          (normalize_url_for_dedupe(other) = norm.results[1])
          <=> (StepsWithAllSlashes(other) = StepsWithAllSlashes(norm.url))


\* C35: ArchiveClicked, Tick and NoOp leave the state unchanged in every
\* session state, the dirty flag included; ArchiveClicked returns exactly
\* [ArchiveRequested], Tick and NoOp return no effects.
C35_ArchiveTickNoOpKeepState ==
    [][ /\ ArchiveClicked
           => /\ state' = state
              /\ effects' = << [ type |-> "ArchiveRequested" ] >>
        /\ (Tick \/ NoOp)
           => /\ state' = state
              /\ effects' = << >> ]_vars

\* an archive click while the session is finishing, with jobs in the map and
\* nothing waiting to be rendered
C35_Witness ==
    /\ last_msg = "ArchiveClicked"
    /\ effects = << [ type |-> "ArchiveRequested" ] >>
    /\ state.session = "Finishing"
    /\ JobIds(state) # { }
    /\ ~state.dirty


\* C38: no reducer message produces session = Finished; the only session
\* transitions are Idle to Running (an accepted paste), Running to Finishing
\* (StopFinishClicked) and any state to Idle (a non-empty restore), so the
\* completion of the remaining jobs never leaves Finishing.
C38_SessionTransitions ==
    [][ /\ state'.session # "Finished"
        /\ state'.session # state.session
           => \/ /\ state.session = "Idle"
                 /\ state'.session = "Running"
                 /\ last_msg' = "UrlsSubmitted"
                 /\ JobIds(state') # JobIds(state)
              \/ /\ state.session = "Running"
                 /\ state'.session = "Finishing"
                 /\ last_msg' = "StopFinishClicked"
              \/ /\ state'.session = "Idle"
                 /\ last_msg' = "RestoreCompletedJobs"
                 /\ JobIds(state') # { } ]_vars

\* the last of the jobs has completed after Stop and the session is still
\* Finishing
C38_Witness ==
    /\ last_msg = "JobDone"
    /\ state.session = "Finishing"
    /\ Cardinality(JobIds(state)) = MaxJobs
    /\ \A id \in JobIds(state) :
          state.jobs[id].stage = "Done" /\ is_some(state.jobs[id].outcome)


\* C40: a restore with an empty snapshot list leaves the whole state
\* unchanged: jobs, seen_urls, total_tokens, next_job_id, session, the
\* preview selection and the dirty flag keep their values.
C40_EmptyRestoreChangesNothing ==
    [][ Dispatch([ type |-> "RestoreCompletedJobs", entries |-> << >> ])
        => state' = state /\ effects' = << >> ]_vars

\* after an empty restore: a session that is finishing, a queued job that is
\* selected, and nothing waiting to be rendered, none of which a restore
\* that had entries would leave behind
C40_Witness ==
    /\ last_msg = "RestoreCompletedJobs"
    /\ state.session = "Finishing"
    /\ ~state.dirty
    /\ \E id \in JobIds(state) :
          /\ state.jobs[id].stage = "Queued"
          /\ preview_job_id(state.ui.preview) = Some(id)
    /\ state.seen_urls # { }
    /\ state.next_job_id > 1


\* C37: every JobCompleted event the engine emits carries a job_id for which
\* the worker has received an Enqueue command, also when Export requests and
\* Stop are interleaved and when the export fails.
C37_CompletionsOnlyForEnqueuedIds ==
    \A i \in DOMAIN events :
        events[i].type = "JobCompleted" => events[i].job_id \in received


(***************************************************************************)
(* The application under fair scheduling: a paste of a plain URL and of    *)
(* the text "__EXPORT__", Stop, the worker and the delivery of its events. *)
(***************************************************************************)
ComposedPasteInputs == { << "a", "\n" >> \o ExportMarkerUrl }

ComposedInputChanged ==
    \E text \in ComposedPasteInputs :
        dispatch_msg([ type |-> "InputChanged", text |-> text ])

ComposedNext ==
    \/ UiStep(ComposedInputChanged)
    \/ UiStep(AppUrlsSubmitted)
    \/ UiStep(AppStopFinishClicked)
    \/ EventStep(DeliverEvent)
    \/ WorkerStep(WorkerTryRecv)
    \/ WorkerStep(WorkerTryRecvEmpty)
    \/ WorkerStep(WorkerPopExport)
    \/ WorkerStep(WorkerStartJob)
    \/ WorkerStep(WorkerBlock)
    \/ WorkerStep(WorkerRecv)
    \/ WorkerStep(Fetch)
    \/ WorkerStep(FetchChunk)
    \/ WorkerStep(FetchEnd)
    \/ WorkerStep(CheckCancelled)
    \/ StageStep(Decode)
    \/ StageStep(Extract)
    \/ StageStep(Convert)
    \/ StageStep(Tokenize)
    \/ StageStep(Write)

\* the worker thread and the event loop run whenever they have a step to take
SpecComposedFair ==
    /\ Init
    /\ [][ComposedNext]_vars
    /\ WF_vars(WorkerNext)
    /\ WF_vars(EventStep(DeliverEvent))

\* the job is in the map, at stage Done, with an outcome
JobFinished(id) ==
    /\ id \in JobIds(state)
    /\ state.jobs[id].stage = "Done"
    /\ is_some(state.jobs[id].outcome)

\* nothing is left to do for the jobs created so far: no command in the
\* channel, no entry in the queue, the worker blocked in recv, every event
\* delivered to the reducer
ComposedQuiescent ==
    /\ WorkerDrained
    /\ delivered = Len(events)

\* C36: in the composed system every job the reducer creates eventually
\* reaches stage Done with an outcome set, under fair scheduling, with or
\* without a StopFinishClicked.
C36_EveryJobFinishes ==
    \A id \in MsgJobIds : (id \in JobIds(state)) ~> JobFinished(id)

\* what C36 requires of a run that has come to rest: once the worker has
\* handled every command and queue entry and every event has been delivered,
\* no job is left unfinished
C36_NoJobLeftBehind ==
    ComposedQuiescent => \A id \in JobIds(state) : JobFinished(id)

\* the same for the jobs whose URL is not the text of the export marker
FinishesUnlessMarkerUrl ==
    \A id \in MsgJobIds :
        (id \in JobIds(state) /\ state.jobs[id].url # ExportMarkerUrl)
        ~> JobFinished(id)

====
